---- MODULE Spec2Model ----
(***************************************************************************)
(* A model of the polymarket trading bot: the Bot tick cycle (bot.ts),     *)
(* the trade ledger (db: insertTrade / closeTrade / getOpenTrades) and the *)
(* Trader's sell path (trader.ts: marketSell, limitSell, waitForFill).     *)
(*                                                                         *)
(* Units.  Share quantities are integers counting hundredths of a share,   *)
(* so the code's 0.01 is 1 and MIN_ORDER_SIZE = 5 shares is 500.  Prices   *)
(* are integers on a small abstract grid.  A nullable value is the empty   *)
(* set (null) or a singleton {v}.                                          *)
(***************************************************************************)
EXTENDS Integers, Sequences, FiniteSets, TLC

(* ------------------------------ bounds -------------------------------- *)
\* instruments (token ids) the discovery collaborator can offer
NumTokens == 2
\* tick() invocations that can be in flight at the same time
MaxTicks == 2
\* trade records the ledger may hold (the environment stops filling buys then)
MaxTrades == 2
\* setInterval timers that may be armed (armed or about to be armed)
MaxTimers == 2
\* prices are drawn from 1..MaxPrice
MaxPrice == 2

(* ------------------------- program constants -------------------------- *)
\* config.stopLoss, on the 1..MaxPrice grid
StopLoss == 1
\* MIN_ORDER_SIZE = 5 shares (the fallback minimum order size), in hundredths
MIN_ORDER_SIZE == 500
\* marketSell / limitSell default maxRetries
DefaultMaxRetries == 3
\* FAST_FILL_TIMEOUT_MS
FAST_FILL_TIMEOUT_MS == 1500
\* the poll interval marketSell passes to waitForFill
FillPollIntervalMs == 150
\* waitForFill: maxConsecutiveApiErrors
MaxConsecutiveApiErrors == 5

Tokens == 1..NumTokens
TickIds == 1..MaxTicks
Prices == 1..MaxPrice

Null == {}
Some(v) == {v}
Val(o) == CHOOSE v \in o : TRUE
Min(a, b) == IF a <= b THEN a ELSE b

VARIABLES
  \* ---- Bot (bot.ts) ----
  phase,          \* "constructed" | "ready": before / after Bot.init()
  tradingEnabled, \* state.tradingEnabled
  initError,      \* state.initError
  running,        \* state.running
  intervalSet,    \* this.interval !== null
  timers,         \* number of setInterval timers currently armed
  awaited,        \* tick slots a start() call is awaiting (await this.tick())
  stateBalance,   \* state.balance (USDC; null when the balance query failed)
  positions,      \* state.positions: a Map keyed by token id
  nextOrd,        \* insertion counter giving the Map its iteration order
  ticks,          \* the tick() invocations in flight, one record per slot
  control,        \* the start() / stop() / shutdown call this step made, if any
  \* ---- ledger (db) ----
  trades,         \* the trades table; a record's id is its index
  \* ---- Trader sell call (trader.ts) ----
  sell,           \* the marketSell / limitSell call under study
  \* ---- Trader: the other operations (trader.ts) ----
  buy,            \* the buy call under study
  clamp,          \* the last clampPriceToTick evaluation: inputs and result
  tokenRulesCache,\* this.tokenRulesCache: token id -> rules entry
  clock,          \* Date.now(), in seconds
  lookup,         \* the fetchTokenMarketRules call under study
  xop,            \* an exchange-facing Trader operation and its call trace
  \* ---- PriceStream (websocket) ----
  sockets,        \* readyState of every WebSocket object created
  ws,             \* this.ws: index of a socket, or 0 for null
  connected,      \* this.connected
  subscriptions,  \* this.subscriptions
  reconnectTimer, \* the pending reconnect timeout: null, or its delay in ms
  pingTimer,      \* this.pingTimer !== null
  closedByOwner,  \* close() has been called
  handled,        \* the handler that ran last, with what it sent
  prices,         \* this.prices: token id -> snapshot (price, bestBid, bestAsk)
  callbacks,      \* this.callbacks: what each registered callback does
  delivery,       \* the message handled last: the snapshots before it, the
                  \* updates it fired and the callbacks each one reached
  \* ---- Bot with the price stream ----
  wsConnected,    \* state.wsConnected
  connectPromise, \* the promise of the connect() call Bot.init awaits
  sourced,        \* the stop-loss price source chosen last
  \* ---- configuration and strategy functions ----
  evaluation      \* the function evaluated last: its input and its result

botVars == <<phase, tradingEnabled, initError, running, intervalSet, timers, awaited,
             stateBalance, positions, nextOrd, ticks, control, trades>>
sellVars == <<sell>>
execVars == <<buy, clamp, tokenRulesCache, clock, lookup, xop>>
streamVars == <<sockets, ws, connected, subscriptions, reconnectTimer,
                pingTimer, closedByOwner, handled>>
\* everything outside the Bot and the ledger
feedVars == <<prices, callbacks, delivery>>
sourceVars == <<wsConnected, connectPromise, sourced>>
nonBotVars == <<sellVars, execVars, streamVars, feedVars, sourceVars, evaluation>>
vars == <<botVars, sellVars, execVars, streamVars, feedVars, sourceVars, evaluation>>

(* ------------------------------ ledger -------------------------------- *)
\* the row inserted with an exit price of 0 in place of NULL
InsertTrade_ZeroExit(tr, tokenId, entryPrice, shares) ==
  Append(tr, [token_id |-> tokenId, entry_price |-> entryPrice,
              shares |-> shares, status |-> "OPEN",
              exit_price |-> {0}, pnl |-> {}, closed_at |-> {}])

\* insertTrade: INSERT ... status 'OPEN', exit_price / pnl / closed_at left
\* NULL; the new row's id (lastInsertRowid) is its index.
InsertTrade(tr, tokenId, entryPrice, shares) ==
  Append(tr, [token_id |-> tokenId, entry_price |-> entryPrice,
              shares |-> shares, status |-> "OPEN",
              exit_price |-> Null, pnl |-> Null, closed_at |-> Null])

\* closeTrade: no row with that id -> return; otherwise one UPDATE writes
\* exit_price, status, pnl and closed_at (the time of the call) of that row,
\* whatever its current status.
CloseTrade(tr, id, exitPrice, status) ==
  IF id \notin 1..Len(tr) THEN tr
  ELSE [tr EXCEPT ![id] =
          [@ EXCEPT !.exit_price = Some(exitPrice),
                    !.status = status,
                    !.closed_at = Some("now"),
                    !.pnl = Some((exitPrice - tr[id].entry_price) * tr[id].shares)]]

\* getOpenTrades: the ids of the OPEN rows, newest first (ORDER BY
\* created_at DESC; rows are created in id order).
RECURSIVE OpenIdsDesc(_, _)
OpenIdsDesc(tr, n) ==
  IF n = 0 THEN <<>>
  ELSE IF tr[n].status = "OPEN" THEN <<n>> \o OpenIdsDesc(tr, n - 1)
       ELSE OpenIdsDesc(tr, n - 1)
\* the query without its WHERE clause
GetOpenTrades_AllRows(tr) == [i \in 1..Len(tr) |-> Len(tr) + 1 - i]

GetOpenTrades(tr) == OpenIdsDesc(tr, Len(tr))

(* ------------------------- the position Map ---------------------------- *)
\* Map.set: a new key is appended to the iteration order, an existing key
\* keeps its place and gets the new value.
MapSet(map, ord, tokenId, tradeId, shares, entryPrice) ==
  LET o == IF tokenId \in DOMAIN map THEN map[tokenId].ord ELSE ord
      e == [tradeId |-> tradeId, shares |-> shares,
            entryPrice |-> entryPrice, ord |-> o]
  IN [t \in (DOMAIN map) \cup {tokenId} |-> IF t = tokenId THEN e ELSE map[t]]

\* The live Map iterator of `for (const [tokenId, position] of positions)`:
\* the keys not yet visited, i.e. inserted after the last one visited.
Unvisited(map, last) == {t \in DOMAIN map : map[t].ord > last}
NextKey(map, last) ==
  CHOOSE t \in Unvisited(map, last) :
    \A u \in Unvisited(map, last) : map[t].ord <= map[u].ord

\* Bot.init: positions.set(trade.token_id, ...) for each open trade in the
\* order getOpenTrades returns them.
RECURSIVE LoadPositions(_, _, _, _)
LoadPositions(tr, ids, map, ord) ==
  IF ids = <<>> THEN map
  ELSE LET r == tr[Head(ids)]
       IN LoadPositions(tr, Tail(ids),
            MapSet(map, ord, r.token_id, Head(ids), r.shares, r.entry_price),
            ord + 1)

EmptyMap == [t \in {} |-> 0]

(* --------------------- Trader calls seen from the Bot ------------------ *)
\* getBalance(): the USDC balance, or null on an API error.
BalanceResults == {Null, Some(1), Some(2)}
\* `balance > 1` and `balance < 1` on number | null (null compares as 0)
GreaterThanOne(b) == b # Null /\ Val(b) > 1
LessThanOne(b) == b = Null \/ Val(b) < 1

\* share quantity a filled buy returns (hundredths of a share)
BuyShares == {1200}
\* a market's quoted price that passes the entry threshold
EntryPrices == {p \in Prices : p >= MaxPrice}

\* exchange-held balances of a token a sell can find (hundredths)
HeldValues == {0, 600, 1200}

\* What a marketSell(tokenId, shares) call can return to the Bot when the
\* exchange holds h of the token: null, or a result with its execution
\* price (the Bot reads nothing else of the result).  The sell path itself
\* is the subject of SellSpec.
MarketSellResults(h, shares) ==
  {Null} \cup (IF Min(shares, h) >= MIN_ORDER_SIZE
                 THEN {Some(p) : p \in Prices} ELSE {})

(* ------------------------------- Bot ----------------------------------- *)
\* no start() / stop() / shutdown call in this step; of a call: whether it
\* passed its guard (ran), cleared a timer, what it logged, and for stop()
\* whether the step before was a stop() too (again); of init: whether it
\* enabled trading and returned (ran); of a stop-loss check:
\* the tick that made it and the price it evaluated; of a stop-loss sell:
\* its tick and whether it returned a result (ran); of a ledger call made
\* on its own: its arguments
NoControl == [call |-> "none", again |-> FALSE, ran |-> FALSE, cleared |-> FALSE,
              logged |-> << >>, tick |-> 0, price |-> 0,
              id |-> 0, tokenId |-> 0, shares |-> 0, status |-> "none"]

\* the mid price getPrice returns: below, at and above the stop-loss level
MidPrices == 0..MaxPrice

\* the stop-loss test as it would be with a strict comparison
StopLossTriggered_Strict(currentPrice) == currentPrice < StopLoss

\* `currentPrice <= this.config.stopLoss`
StopLossTriggered(currentPrice) == currentPrice <= StopLoss

\* the deletion left out
MapDelete_Keeps(map, tokenId) == map

MapDelete(map, tokenId) == [t \in (DOMAIN map) \ {tokenId} |-> map[t]]

\* what Trader.init caught, if anything: an error with or without a
\* response.data.error and a message
InitFailures ==
  {[responseError |-> r, message |-> m] :
     r \in {Null, Some("Unauthorized")}, m \in {Null, Some("Network Error")}}

\* the outcome of Trader.init: nothing caught (the trader is ready), or the
\* error caught
InitResults == {Null} \cup {Some(f) : f \in InitFailures}

\* the failure left without a reason
InitErrorOf_Dropped(err) == Null

\* Trader.init's catch: the reason kept in initError
InitErrorOf(err) ==
  IF err.responseError # Null THEN err.responseError
  ELSE IF err.message # Null THEN err.message
  ELSE Some("Could not connect to CLOB API")

IdleTick == [pc |-> "idle", cur |-> 0, pos |-> Null, last |-> 0,
             todo |-> {}, price |-> 0]

\* `await this.tick()` in start(): when the awaited tick settles, start()
\* resumes and arms the interval timer.
TickUpdate(k, nt) ==
  /\ ticks' = [ticks EXCEPT ![k] = nt]
  /\ IF nt.pc = "idle" /\ k \in awaited
       THEN /\ awaited' = awaited \ {k}
            /\ timers' = timers + 1
            /\ intervalSet' = TRUE
       ELSE UNCHANGED <<awaited, timers, intervalSet>>

\* scanForEntries' loop from the market after the ones already handled:
\* skip a token that has a position, enter the first one that has none
\* (enterPosition runs up to its `await getBalance()`).
RECURSIVE ScanFrom(_, _, _)
ScanFrom(map, todo, price) ==
  IF todo = {} THEN IdleTick
  ELSE LET t == CHOOSE x \in todo : \A y \in todo : x <= y
       IN IF t \in DOMAIN map
            THEN ScanFrom(map, todo \ {t}, price)
            ELSE [IdleTick EXCEPT !.pc = "enterBalance", !.cur = t,
                                  !.todo = todo \ {t}, !.price = price]

\* checkStopLosses' loop from the Map iterator's position `last`: the next
\* position is captured and its price awaited; after the last position
\* tick() goes on to scanForEntries when state.balance > 1.
StopLoopFrom(map, last, bal) ==
  IF Unvisited(map, last) # {}
    THEN LET t == NextKey(map, last)
         IN [IdleTick EXCEPT !.pc = "getPrice", !.cur = t,
                             !.pos = Some(map[t]), !.last = map[t].ord]
    ELSE IF GreaterThanOne(bal)
           THEN [IdleTick EXCEPT !.pc = "findEligible"]
           ELSE IdleTick

\* the failure of a position's check ending the whole stop-loss pass
AfterFailedCheck_EndsTick(map, last, bal) == IdleTick

\* checkStopLosses' `catch (err)` inside the loop body, and a sell that
\* returned null: the loop goes on with the next position
AfterFailedCheck(map, last, bal) == StopLoopFrom(map, last, bal)

\* tick() up to its first await: returns at once when trading is disabled.
LaunchedTick == IF tradingEnabled THEN [IdleTick EXCEPT !.pc = "getBalance"]
                ELSE IdleTick

\* The slot a new tick() invocation takes: the lowest one not in flight
\* (0 when MaxTicks invocations are in flight already).
FreeSlot ==
  IF \E k \in TickIds : ticks[k].pc = "idle"
    THEN CHOOSE k \in TickIds :
           ticks[k].pc = "idle" /\ \A j \in TickIds : ticks[j].pc = "idle" => k <= j
    ELSE 0

(* ------------------------ Trader: order prices ------------------------- *)
(* Order prices are integers counting 1e-6, so a price of 1 is ONE and the *)
(* 0.01 tick is 10000; USDC amounts count 1e-6 too (the exchange's raw     *)
(* balance unit); share quantities count hundredths as before.  The        *)
(* arithmetic is exact: the model has no floating-point rounding.          *)
\* the price 1 (the upper end of the price range), in units of 1e-6
ONE == 1000000
\* buy's lower price guard 0.0001, in units of 1e-6
MinBuyPrice == 100
\* the fallback tick size 0.01, in units of 1e-6
FallbackTickSize == 10000

Max(a, b) == IF a >= b THEN a ELSE b

\* clampPriceToTick.  Number(x.toFixed(6)) keeps six decimals, which is the
\* unit prices are counted in: the product is returned as it is.
ClampPriceToTick(price, tickSize) ==
  LET bounded == Min(ONE - tickSize, Max(tickSize, price))
      nticks == bounded \div tickSize
  IN nticks * tickSize

\* the share quantity rounded to the nearest hundredth instead of floored
BuyShareQuantity_Round(usdcAmount, limitPrice) ==
  (usdcAmount * 100 + limitPrice \div 2) \div limitPrice

\* Math.floor((usdcAmount / limitPrice) * 100) / 100, in hundredths
BuyShareQuantity(usdcAmount, limitPrice) ==
  (usdcAmount * 100) \div limitPrice

(* ------------------------ Trader: the sell path ------------------------ *)
\* An error message is the sequence of its words; includes(w) is membership.
Includes(msg, w) == \E i \in 1..Len(msg) : msg[i] = w

\* isBalanceAllowanceError: msg.includes("balance") || msg.includes("allowance")
IsBalanceAllowanceError(msg) == Includes(msg, "balance") \/ Includes(msg, "allowance")

\* Math.min(500 * Math.pow(2, attempt - 1), 2000)
BackoffMs(attempt) == Min(500 * 2^(attempt - 1), 2000)

\* attempt === 1 ? OrderType.FOK : OrderType.FAK
OrderTypeFor(attempt) == IF attempt = 1 THEN "FOK" ELSE "FAK"

\* validateAndAdjustShares without the clamp to the exchange-held balance:
\* what is sold is the locally recorded share count
ValidateAndAdjustShares_NoClamp(positionBalance, shares, minOrderSize) ==
  IF positionBalance = Null THEN [ok |-> FALSE, why |-> "api", sharesToSell |-> 0]
  ELSE IF Val(positionBalance) < 1 THEN [ok |-> FALSE, why |-> "none", sharesToSell |-> 0]
  ELSE IF shares < minOrderSize
         THEN [ok |-> FALSE, why |-> "min", sharesToSell |-> 0]
         ELSE [ok |-> TRUE, why |-> "", sharesToSell |-> shares]

\* validateAndAdjustShares on the balance getPositionBalance returned (null
\* on an API error) and the token's minimum order size: null with its
\* reason, or the shares to sell.
ValidateAndAdjustShares(positionBalance, shares, minOrderSize) ==
  IF positionBalance = Null THEN [ok |-> FALSE, why |-> "api", sharesToSell |-> 0]
  ELSE IF Val(positionBalance) < 1 THEN [ok |-> FALSE, why |-> "none", sharesToSell |-> 0]
  ELSE LET sharesToSell == Min(shares, Val(positionBalance))
       IN IF sharesToSell < 1 THEN [ok |-> FALSE, why |-> "small", sharesToSell |-> 0]
          ELSE IF sharesToSell < minOrderSize
                 THEN [ok |-> FALSE, why |-> "min", sharesToSell |-> 0]
                 ELSE [ok |-> TRUE, why |-> "", sharesToSell |-> sharesToSell]

\* getOrderFillInfo on what getOrder returned (null on an API error)
GetOrderFillInfo(order) ==
  IF order = Null THEN Null
  ELSE LET o == Val(order)
       IN Some([filled |-> (o.status = "MATCHED"
                            \/ (o.size_matched >= o.original_size /\ o.original_size > 0)),
                filledShares |-> o.size_matched,
                avgPrice |-> o.price,
                status |-> o.status])

\* One pass of waitForFill's loop body on a fill info: "fill" (return it),
\* "null" (return null) or "sleep" (wait pollIntervalMs and poll again).
PollDecision(fillInfo, consecutiveApiErrors) ==
  IF fillInfo = Null
    THEN IF consecutiveApiErrors + 1 >= MaxConsecutiveApiErrors THEN "null" ELSE "sleep"
  ELSE LET f == Val(fillInfo)
       IN IF f.filled /\ f.filledShares > 0 THEN "fill"
          ELSE IF f.status \in {"CANCELLED", "REJECTED"} /\ f.filledShares > 0 THEN "fill"
          ELSE IF f.status \in {"CANCELLED", "REJECTED"} THEN "null"
          ELSE "sleep"

\* waitForFill after its loop: the final query counts when it shows a fill.
FinalDecision(fillInfo) ==
  IF fillInfo # Null /\ Val(fillInfo).filledShares > 0 THEN "fill" ELSE "null"

(* inputs of the sell path *)
\* shares a caller asks to sell: none, or a recorded position of 12 shares
SellRequests == {0, 1200}
\* what getPositionBalance can return: API error, nothing, below the
\* minimum, less than requested, more than requested
PositionBalances == {Null, Some(0), Some(400), Some(1000), Some(1500)}
\* minimum order sizes fetchTokenMarketRules can return
MinOrderSizes == {MIN_ORDER_SIZE, 1100}
\* maxRetries a caller passes
MaxRetriesValues == {1, DefaultMaxRetries}
\* exchange / client error messages
ErrorMessages == { <<"not", "enough", "balance">>, <<"allowance", "too", "low">>,
                   <<"invalid", "signature">>, <<>> }
\* what getOrder can return for an order of the given size
OrderReports(size) ==
  {Null} \cup {Some([status |-> st, size_matched |-> m, original_size |-> size,
                     price |-> p]) :
                 st \in {"LIVE", "MATCHED", "CANCELLED"},
                 m \in {0, size \div 2, size}, p \in {0, 1}}
\* target prices a limitSell caller passes: 0.957, and 1.2 (out of range)
LimitPrices == {957000, 1200000}
\* tick sizes getTickSize returns to a sell: 0.01, 0.001
SellTickSizes == {FallbackTickSize, 1000}
\* time a getOrder call can take (ms)
Latencies == {0, 300}
MaxLatency == CHOOSE d \in Latencies : \A e \in Latencies : e <= d

SellIdle ==
  [pc |-> "idle", kind |-> "none", shares |-> 0, price |-> 0, maxRetries |-> 0,
   attempt |-> 0, reads |-> 0, bal |-> Null, adjusted |-> 0,
   orders |-> <<>>, backoffs |-> <<>>, hist |-> <<>>,
   elapsed |-> 0, apiErrors |-> 0,
   result |-> Null, threw |-> FALSE, lastError |-> Null]

EndAttempt(s, outcome) == [s EXCEPT !.hist = Append(@, outcome)]

\* return null
ReturnNull(s) == [s EXCEPT !.pc = "done", !.result = Null]

\* the statements after the for loop
LoopExit(s) ==
  IF s.kind = "market"
    THEN [ReturnNull(s) EXCEPT
            !.lastError = Some(<<"[STOP-LOSS]", "Market", "sell", "failed", "after", "retries">>)]
    ELSE ReturnNull(s)

\* `continue` with the loop test off by one: one attempt too many
NextAttempt_OffByOne(s) ==
  IF s.attempt + 1 <= s.maxRetries + 1
    THEN [s EXCEPT !.attempt = s.attempt + 1, !.pc = "validate",
                   !.bal = Null, !.adjusted = 0,
                   !.elapsed = 0, !.apiErrors = 0]
    ELSE LoopExit([s EXCEPT !.attempt = s.attempt + 1])

\* `continue`: attempt++ and the loop test attempt <= maxRetries
NextAttempt(s) ==
  IF s.attempt + 1 <= s.maxRetries
    THEN [s EXCEPT !.attempt = s.attempt + 1, !.pc = "validate",
                   !.bal = Null, !.adjusted = 0,
                   !.elapsed = 0, !.apiErrors = 0]
    ELSE LoopExit([s EXCEPT !.attempt = s.attempt + 1])

\* the balance/allowance branch: wait backoffMs, then `continue`
StartBackoff(s) ==
  [s EXCEPT !.pc = "backoff",
            !.backoffs = Append(@, [attempt |-> s.attempt, ms |-> BackoffMs(s.attempt)])]

\* the failure handling without the retry: the call gives up at once
MarketFail_NoRetry(s, errMsg) == ReturnNull([s EXCEPT !.lastError = Some(errMsg)])

\* marketSell's handling of a failure that is not a balance/allowance one:
\* record the message, `if (attempt < maxRetries) continue; return null;`
MarketFail(s, errMsg) ==
  LET s1 == [s EXCEPT !.lastError = Some(errMsg)]
  IN IF s.attempt < s.maxRetries THEN NextAttempt(s1) ELSE ReturnNull(s1)

\* the catch block of the attempt, on err.toString() = "Error: " + message
CatchError(s, msg) ==
  IF IsBalanceAllowanceError(<<"Error:">> \o msg)
    THEN StartBackoff(s)
    ELSE IF s.kind = "market" THEN MarketFail(s, msg) ELSE ReturnNull(s)

\* the client call threw
Threw(s, msg) ==
  CatchError(EndAttempt(s, IF IsBalanceAllowanceError(<<"Error:">> \o msg)
                             THEN "threw_transient" ELSE "threw_other"),
             msg)

\* a rejection handled as if every rejection were a balance/allowance one
Rejected_RetryAny(s, msg) ==
  StartBackoff(EndAttempt(s, IF IsBalanceAllowanceError(msg)
                               THEN "rejected_transient" ELSE "rejected_other"))

\* the exchange answered success: false
Rejected(s, msg) ==
  IF IsBalanceAllowanceError(msg)
    THEN StartBackoff(EndAttempt(s, "rejected_transient"))
    ELSE IF s.kind = "market"
           THEN MarketFail(EndAttempt(s, "rejected_other"),
                           <<"[STOP-LOSS]", "Sell", "failed:">> \o
                             (IF msg = <<>> THEN <<"unknown", "error">> ELSE msg))
           ELSE ReturnNull(EndAttempt(s, "rejected_other"))

\* validateAndAdjustShares returned null: marketSell throws inside its try,
\* limitSell returns null.
ValidationFailed(s, why) ==
  IF s.kind = "market"
    THEN CatchError(EndAttempt(s, "validation_" \o why),
                    <<"[STOP-LOSS]", "Could", "not", "validate", "sell", "shares">>)
    ELSE ReturnNull(EndAttempt(s, "validation_" \o why))

\* marketSell after waitForFill returned (null: no fill info)
AfterFill(s, fillInfo) ==
  IF fillInfo = Null \/ Val(fillInfo).filledShares <= 0
    THEN MarketFail(EndAttempt(s, "nofill"),
                    <<"[STOP-LOSS]", "Market", "order", "had", "no", "fills",
                      OrderTypeFor(s.attempt)>>)
    ELSE LET soldShares == Min(s.adjusted, Val(fillInfo).filledShares)
             fullyFilled == soldShares * 100 >= s.adjusted * 99
         IN IF ~fullyFilled /\ OrderTypeFor(s.attempt) = "FOK" /\ s.attempt < s.maxRetries
              THEN NextAttempt(EndAttempt(s, "partial_fok"))
              ELSE [EndAttempt(s, "filled") EXCEPT
                      !.pc = "done",
                      !.result = Some([price |-> Val(fillInfo).avgPrice,
                                       soldShares |-> soldShares,
                                       fullyFilled |-> fullyFilled])]

\* everything of the Bot and the ledger, which a Trader call leaves alone
BotUnchanged ==
  UNCHANGED <<botVars, execVars, streamVars, feedVars, sourceVars, evaluation>>

\* marketSell(tokenId, shares, undefined, maxRetries) is called (the Bot
\* passes no bidOverride): lastMarketSellError is reset; invalid shares
\* throw before the first attempt.
MarketSellCall ==
  /\ sell.pc = "idle"
  /\ \E shares \in SellRequests, maxRetries \in MaxRetriesValues :
       LET s == [SellIdle EXCEPT !.kind = "market", !.shares = shares,
                                 !.maxRetries = maxRetries]
       IN IF shares < 1
            THEN sell' = [s EXCEPT !.pc = "done", !.threw = TRUE,
                            !.lastError = Some(<<"[STOP-LOSS]", "Invalid", "shares",
                                                 "to", "sell:">>)]
            ELSE sell' = [s EXCEPT !.pc = "validate", !.attempt = 1]
  /\ BotUnchanged

\* limitSell(tokenId, shares, price, maxRetries) is called: invalid shares
\* return null; lastMarketSellError is not touched.
LimitSellCall ==
  /\ sell.pc = "idle"
  /\ \E shares \in SellRequests, price \in LimitPrices, maxRetries \in MaxRetriesValues :
       LET s == [SellIdle EXCEPT !.kind = "limit", !.shares = shares,
                                 !.price = price, !.maxRetries = maxRetries,
                                 !.lastError = sell.lastError]
       IN IF shares < 1
            THEN sell' = ReturnNull(s)
            ELSE sell' = [s EXCEPT !.pc = "validate", !.attempt = 1]
  /\ BotUnchanged

\* the attempt's validateAndAdjustShares: getPositionBalance is read anew,
\* then the minimum order size.
SellValidate ==
  /\ sell.pc = "validate"
  /\ \E b \in PositionBalances, minOrderSize \in MinOrderSizes :
       LET v == ValidateAndAdjustShares(b, sell.shares, minOrderSize)
           s == [sell EXCEPT !.reads = @ + 1, !.bal = b]
       IN IF v.ok
            THEN sell' = [s EXCEPT !.pc = "submit", !.adjusted = v.sharesToSell]
            ELSE sell' = ValidationFailed(s, v.why)
  /\ BotUnchanged

\* the attempt's order goes to the exchange (createAndPostMarketOrder with
\* the attempt's order type and, as the Bot passes no bidOverride, no price;
\* or createAndPostOrder, a standing order, at the target price clamped to
\* the tick getTickSize returned) and the exchange accepts it, rejects it,
\* or the client throws.
SellSubmit ==
  /\ sell.pc = "submit"
  /\ \E tickSize \in (IF sell.kind = "limit" THEN SellTickSizes ELSE {0}) :
     LET order == [attempt |-> sell.attempt, size |-> sell.adjusted,
                   balance |-> sell.bal, readNo |-> sell.reads,
                   orderType |-> IF sell.kind = "market"
                                   THEN OrderTypeFor(sell.attempt) ELSE "GTC",
                   tickSize |-> tickSize,
                   price |-> IF sell.kind = "limit"
                               THEN ClampPriceToTick(sell.price, tickSize) ELSE 0]
         s == [sell EXCEPT !.orders = Append(@, order)]
     IN \/ \* response.success
           IF sell.kind = "market"
             THEN sell' = [s EXCEPT !.pc = "polling"]
             ELSE sell' = [EndAttempt(s, "placed") EXCEPT
                             !.pc = "done",
                             !.result = Some([price |-> order.price, soldShares |-> 0,
                                              fullyFilled |-> FALSE])]
        \/ \E msg \in ErrorMessages : sell' = Rejected(s, msg)
        \/ \E msg \in ErrorMessages : sell' = Threw(s, msg)
  /\ BotUnchanged

\* the backoff timer of a balance/allowance retry runs out
SellBackoffDone ==
  /\ sell.pc = "backoff"
  /\ sell' = NextAttempt(sell)
  /\ BotUnchanged

\* waitForFill, one pass of `while (Date.now() - startTime < timeoutMs)`
SellPoll ==
  /\ sell.pc = "polling"
  /\ sell.elapsed < FAST_FILL_TIMEOUT_MS
  /\ \E rep \in OrderReports(sell.adjusted), d \in Latencies :
       LET info == GetOrderFillInfo(rep)
           dec == PollDecision(info, sell.apiErrors)
           s == [sell EXCEPT !.elapsed = @ + d]
       IN CASE dec = "fill" -> sell' = AfterFill(s, info)
            [] dec = "null" -> sell' = AfterFill(s, Null)
            [] OTHER ->
                 sell' = [s EXCEPT !.elapsed = @ + FillPollIntervalMs,
                                   !.apiErrors = IF info = Null THEN @ + 1 ELSE 0]
  /\ BotUnchanged

\* waitForFill after the timeout: one final getOrderFillInfo
SellFinalPoll ==
  /\ sell.pc = "polling"
  /\ sell.elapsed >= FAST_FILL_TIMEOUT_MS
  /\ \E rep \in OrderReports(sell.adjusted) :
       LET info == GetOrderFillInfo(rep)
       IN IF FinalDecision(info) = "fill"
            THEN sell' = AfterFill(sell, info)
            ELSE sell' = AfterFill(sell, Null)
  /\ BotUnchanged

\* the caller has the call's outcome; the Trader is ready for the next call
\* (lastMarketSellError stays as the call left it)
SellReturned ==
  /\ sell.pc = "done"
  /\ sell' = [SellIdle EXCEPT !.lastError = sell.lastError]
  /\ BotUnchanged

SellNext ==
  \/ MarketSellCall
  \/ LimitSellCall
  \/ SellValidate
  \/ SellSubmit
  \/ SellBackoffDone
  \/ SellPoll
  \/ SellFinalPoll
  \/ SellReturned

(* --------------------------- Bot: the actions --------------------------- *)
\* Bot.init(): trader.init() succeeds or fails; when the trader is ready the
\* balance is read and logged and the open trades are loaded into the Map.
\* On a null balance `this.state.balance.toFixed(2)` throws before the
\* trades are loaded, and main's catch ends the process.
BotInit ==
  /\ phase = "constructed"
  /\ \E caught \in InitResults, b \in BalanceResults :
       LET ready == caught = Null
       IN /\ tradingEnabled' = ready
          /\ IF ready
               THEN /\ stateBalance' = b
                    /\ UNCHANGED initError
                    /\ IF b = Null
                         THEN /\ phase' = "exited"
                              /\ UNCHANGED <<positions, nextOrd>>
                         ELSE /\ phase' = "ready"
                              /\ positions' = LoadPositions(trades, GetOpenTrades(trades),
                                                            positions, nextOrd)
                              /\ nextOrd' = nextOrd + Len(GetOpenTrades(trades))
               ELSE /\ phase' = "ready"
                    /\ initError' = InitErrorOf(Val(caught))
                    /\ UNCHANGED <<stateBalance, positions, nextOrd>>
          /\ control' = [NoControl EXCEPT !.call = "init",
                                          !.ran = ready /\ b # Null]
  /\ UNCHANGED <<running, intervalSet, timers, awaited, ticks, trades>>
  /\ UNCHANGED nonBotVars

\* Bot.start() on a bot that is not running: set running, run tick() and
\* await it; setInterval follows when that tick has settled.
Start ==
  /\ phase = "ready"
  /\ ~running
  /\ timers + Cardinality(awaited) < MaxTimers
  /\ running' = TRUE
  /\ \E k \in TickIds :
       /\ k = FreeSlot
       /\ IF LaunchedTick.pc = "idle"
            THEN /\ timers' = timers + 1
                 /\ intervalSet' = TRUE
                 /\ UNCHANGED <<ticks, awaited>>
            ELSE /\ ticks' = [ticks EXCEPT ![k] = LaunchedTick]
                 /\ awaited' = awaited \cup {k}
                 /\ UNCHANGED <<timers, intervalSet>>
  /\ UNCHANGED <<phase, tradingEnabled, initError, stateBalance, positions, nextOrd, trades>>
  /\ control' = [call |-> "start", again |-> FALSE, ran |-> TRUE,
                  cleared |-> FALSE, logged |-> << "Bot started" >>]
  /\ UNCHANGED nonBotVars

\* stop() as it would be without its guard
StopReturnsAtOnce_Never(isRunning) == FALSE

\* stop(): `if (!this.state.running) return`
StopReturnsAtOnce(isRunning) == ~isRunning

\* Bot.stop(): on a bot that is not running it returns at once; on a
\* running bot it clears running and the timer this.interval refers to, if
\* any, and logs "Bot stopped".
Stop ==
  /\ phase # "exited"
  /\ IF StopReturnsAtOnce(running)
       THEN /\ UNCHANGED <<running, timers, intervalSet>>
            /\ control' = [call |-> "stop", again |-> control.call = "stop", ran |-> FALSE,
                            cleared |-> FALSE, logged |-> << >>]
       ELSE /\ running' = FALSE
            /\ IF intervalSet
                 THEN timers' = timers - 1 /\ intervalSet' = FALSE
                 ELSE UNCHANGED <<timers, intervalSet>>
            /\ control' = [call |-> "stop", again |-> control.call = "stop", ran |-> TRUE,
                            cleared |-> intervalSet, logged |-> << "Bot stopped" >>]
  /\ UNCHANGED <<phase, tradingEnabled, initError, awaited, stateBalance, positions,
                 nextOrd, ticks, trades>>
  /\ UNCHANGED nonBotVars

\* An armed interval timer fires: setInterval(() => this.tick()) starts a
\* tick without awaiting any tick still in flight.
TimerFire(k) ==
  /\ timers > 0
  /\ tradingEnabled
  /\ k = FreeSlot
  /\ ticks' = [ticks EXCEPT ![k] = LaunchedTick]
  /\ UNCHANGED <<phase, tradingEnabled, initError, running, intervalSet, timers, awaited,
                 stateBalance, positions, nextOrd, trades>>
  /\ control' = NoControl
  /\ UNCHANGED nonBotVars

\* tick(): `this.state.balance = await this.trader.getBalance()` resolves,
\* then checkStopLosses() starts iterating the positions.
TickBalance(k) ==
  /\ ticks[k].pc = "getBalance"
  /\ \E b \in BalanceResults :
       /\ stateBalance' = b
       /\ TickUpdate(k, StopLoopFrom(positions, 0, b))
  /\ UNCHANGED <<phase, tradingEnabled, initError, running, positions, nextOrd, trades>>
  /\ control' = NoControl
  /\ UNCHANGED nonBotVars

\* checkStopLosses: `await this.trader.getPrice(tokenId)` resolves with the
\* mid price; at or below the stop-loss level marketSell is called.
TickPrice(k) ==
  /\ ticks[k].pc = "getPrice"
  /\ \E mid \in MidPrices :
       /\ IF StopLossTriggered(mid)
            THEN TickUpdate(k, [ticks[k] EXCEPT !.pc = "marketSell"])
            ELSE TickUpdate(k, StopLoopFrom(positions, ticks[k].last, stateBalance))
       /\ control' = [NoControl EXCEPT !.call = "checkStopLosses", !.tick = k,
                                       !.price = mid]
  /\ UNCHANGED <<phase, tradingEnabled, initError, running, stateBalance, positions,
                 nextOrd, trades>>
  /\ UNCHANGED nonBotVars

\* checkStopLosses: `await this.trader.marketSell(tokenId, position.shares)`
\* resolves; on a result the trade is closed as STOPPED and the position
\* deleted, with no await between the two; then the loop goes on.
TickSold(k) ==
  /\ ticks[k].pc = "marketSell"
  /\ LET t == ticks[k].cur
         pos == Val(ticks[k].pos)
     IN \E h \in HeldValues : \E res \in MarketSellResults(h, pos.shares) :
          /\ IF res # Null
               THEN /\ trades' = CloseTrade(trades, pos.tradeId, Val(res), "STOPPED")
                    /\ positions' = MapDelete(positions, t)
                    /\ TickUpdate(k, StopLoopFrom(positions', ticks[k].last,
                                                  stateBalance))
               ELSE /\ UNCHANGED <<trades, positions>>
                    /\ TickUpdate(k, AfterFailedCheck(positions, ticks[k].last,
                                                      stateBalance))
          /\ control' = [NoControl EXCEPT !.call = "marketSell", !.tick = k,
                                          !.ran = res # Null]
  /\ UNCHANGED <<phase, tradingEnabled, initError, running, stateBalance, nextOrd>>
  /\ UNCHANGED nonBotVars

\* scanForEntries: `await findEligibleMarkets(...)` resolves with the
\* eligible markets (one eligible token each); the loop starts.
TickEligible(k) ==
  /\ ticks[k].pc = "findEligible"
  /\ \E eligible \in SUBSET Tokens, p \in EntryPrices :
       TickUpdate(k, ScanFrom(positions, eligible, p))
  /\ UNCHANGED <<phase, tradingEnabled, initError, running, stateBalance, positions,
                 nextOrd, trades>>
  /\ control' = NoControl
  /\ UNCHANGED nonBotVars

\* enterPosition: `await this.trader.getBalance()` resolves; below 1 the
\* entry is given up ("Insufficient balance"), otherwise buy is called.
TickEnterBalance(k) ==
  /\ ticks[k].pc = "enterBalance"
  /\ \E b \in BalanceResults :
       IF LessThanOne(b)
         THEN TickUpdate(k, ScanFrom(positions, ticks[k].todo, ticks[k].price))
         ELSE TickUpdate(k, [ticks[k] EXCEPT !.pc = "buy"])
  /\ UNCHANGED <<phase, tradingEnabled, initError, running, stateBalance, positions,
                 nextOrd, trades>>
  /\ control' = NoControl
  /\ UNCHANGED nonBotVars

\* enterPosition: `await this.trader.buy(...)` resolves; on a result the
\* trade is inserted and the position set, with no await between the two.
TickBought(k) ==
  /\ ticks[k].pc = "buy"
  /\ LET t == ticks[k].cur
     IN \E res \in {Null} \cup
                   (IF Len(trades) < MaxTrades
                      THEN {Some(s) : s \in BuyShares} ELSE {}) :
          IF res # Null
            THEN /\ trades' = InsertTrade(trades, t, ticks[k].price, Val(res))
                 /\ positions' = MapSet(positions, nextOrd, t, Len(trades) + 1,
                                        Val(res), ticks[k].price)
                 /\ nextOrd' = nextOrd + 1
                 /\ TickUpdate(k, ScanFrom(positions', ticks[k].todo, ticks[k].price))
            ELSE /\ UNCHANGED <<trades, positions, nextOrd>>
                 /\ TickUpdate(k, ScanFrom(positions, ticks[k].todo, ticks[k].price))
  /\ UNCHANGED <<phase, tradingEnabled, initError, running, stateBalance>>
  /\ control' = NoControl
  /\ UNCHANGED nonBotVars

\* The process exits (the shutdown handler's process.exit, or a crash) and
\* is started again: a new Bot is constructed, every tick in flight and
\* every timer is gone, the ledger file is kept.
Restart ==
  /\ phase \in {"ready", "exited"}
  /\ phase' = "constructed"
  /\ tradingEnabled' = FALSE
  /\ initError' = Null
  /\ running' = FALSE
  /\ intervalSet' = FALSE
  /\ timers' = 0
  /\ awaited' = {}
  /\ stateBalance' = Some(0)
  /\ positions' = EmptyMap
  /\ nextOrd' = 1
  /\ ticks' = [k \in TickIds |-> IdleTick]
  /\ UNCHANGED trades
  /\ control' = NoControl
  /\ UNCHANGED nonBotVars

\* SIGINT or SIGTERM reaches the live process: shutdown() runs, without an
\* await, to its process.exit(0).  isShuttingDown is set on the way and is
\* gone with the process; bot.stop() runs when the bot has been constructed
\* (always, but for the first instants of main), and every timer and every
\* tick in flight ends with the process.
Shutdown ==
  /\ phase # "exited"
  /\ phase' = "exited"
  /\ running' = FALSE
  /\ intervalSet' = FALSE
  /\ timers' = 0
  /\ awaited' = {}
  /\ ticks' = [k \in TickIds |-> IdleTick]
  /\ control' = [call |-> "shutdown", again |-> FALSE, ran |-> TRUE,
                  cleared |-> intervalSet /\ ~StopReturnsAtOnce(running),
                  logged |-> IF StopReturnsAtOnce(running) THEN << >>
                                                           ELSE << "Bot stopped" >>]
  /\ UNCHANGED <<tradingEnabled, initError, stateBalance, positions, nextOrd, trades>>
  /\ UNCHANGED nonBotVars

\* getMarketOverview(): the markets are fetched and analysed with the
\* configuration alone; the trader is not asked.
GetMarketOverview ==
  /\ phase = "ready"
  /\ control' = [NoControl EXCEPT !.call = "getMarketOverview", !.ran = TRUE]
  /\ UNCHANGED <<phase, tradingEnabled, initError, running, intervalSet, timers, awaited,
                 stateBalance, positions, nextOrd, ticks, trades>>
  /\ UNCHANGED nonBotVars

\* a session of the bot from init on: start, stop, the ticks up to the buy,
\* and the market overview
SessionNext ==
  \/ BotInit
  \/ Start
  \/ Stop
  \/ GetMarketOverview
  \/ \E k \in TickIds : TimerFire(k)
  \/ \E k \in TickIds : TickBalance(k)
  \/ \E k \in TickIds : TickEligible(k)
  \/ \E k \in TickIds : TickEnterBalance(k)

\* start(), stop() and the shutdown handler, with the start of the ticks
ControlNext ==
  \/ BotInit
  \/ Start
  \/ Stop
  \/ Shutdown
  \/ \E k \in TickIds : TimerFire(k)
  \/ \E k \in TickIds : TickBalance(k)

(* --------------------------- Trader: the buy --------------------------- *)
\* prices a caller passes: outside (0, 1), at its ends, on and off the grid
PriceInputs == {0 - 100000, 0, 50, 100, 200000, 330000, 957000,
                999900, 1000000, 1200000}
\* tick sizes the order book reports: 0.1, 0.01, 0.001, 0.0001
TickSizes == {100000, FallbackTickSize, 1000, 100}
\* USDC amounts a caller passes: 0, 0.50, 1, 10
UsdcAmounts == {0, 500000, 1000000, 10000000}

ClampIdle == [price |-> 0, tickSize |-> 0, out |-> 0, done |-> FALSE]

BuyIdle == [pc |-> "idle", price |-> 0, usdcAmount |-> 0, tickSize |-> 0,
            minOrderSize |-> 0, limitPrice |-> 0, shares |-> 0,
            orders |-> <<>>, outcome |-> "", result |-> Null]

\* everything a buy or clamp step leaves alone
BuyFrame ==
  UNCHANGED <<botVars, sellVars, tokenRulesCache, clock, lookup, xop, streamVars,
              feedVars, sourceVars, evaluation>>

\* clampPriceToTick(price, tickSize) is evaluated
ClampCall ==
  /\ \E price \in PriceInputs, tickSize \in TickSizes :
       clamp' = [price |-> price, tickSize |-> tickSize,
                 out |-> ClampPriceToTick(price, tickSize), done |-> TRUE]
  /\ UNCHANGED buy
  /\ BuyFrame

\* the price guard with its upper end let through
InvalidBuyPrice_UpperOpen(price) == price < MinBuyPrice \/ price > ONE

\* `price < 0.0001 || price >= 1`
InvalidBuyPrice(price) == price < MinBuyPrice \/ price >= ONE

\* buy(tokenId, price, usdcAmount) is called: the price guard, then
\* `await this.fetchTokenMarketRules(tokenId)`
BuyCall ==
  /\ buy.pc = "idle"
  /\ \E price \in PriceInputs, usdcAmount \in UsdcAmounts :
       LET b == [BuyIdle EXCEPT !.price = price, !.usdcAmount = usdcAmount]
       IN IF InvalidBuyPrice(price)
            THEN buy' = [b EXCEPT !.pc = "done", !.outcome = "invalid_price"]
            ELSE buy' = [b EXCEPT !.pc = "rules"]
  /\ UNCHANGED clamp
  /\ BuyFrame

\* the rules arrive: limit price and share quantity are computed and the
\* quantity checked
BuyRules ==
  /\ buy.pc = "rules"
  /\ \E tickSize \in TickSizes, minOrderSize \in MinOrderSizes :
       LET limitPrice == ClampPriceToTick(buy.price, tickSize)
           shares == BuyShareQuantity(buy.usdcAmount, limitPrice)
           b == [buy EXCEPT !.tickSize = tickSize, !.minOrderSize = minOrderSize,
                            !.limitPrice = limitPrice, !.shares = shares]
       IN IF shares <= 0
            THEN buy' = [b EXCEPT !.pc = "done", !.outcome = "no_funds"]
            ELSE IF shares < minOrderSize
                   THEN buy' = [b EXCEPT !.pc = "done", !.outcome = "below_min"]
                   ELSE buy' = [b EXCEPT !.pc = "submit"]
  /\ UNCHANGED clamp
  /\ BuyFrame

\* createAndPostOrder: the order goes out once; the exchange accepts it,
\* rejects it, or the client throws
BuySubmit ==
  /\ buy.pc = "submit"
  /\ LET b == [buy EXCEPT !.pc = "done",
                          !.orders = Append(@, [price |-> buy.limitPrice,
                                                size |-> buy.shares])]
     IN \/ buy' = [b EXCEPT !.outcome = "accepted", !.result = Some(buy.shares)]
        \/ buy' = [b EXCEPT !.outcome = "rejected"]
        \/ buy' = [b EXCEPT !.outcome = "threw"]
  /\ UNCHANGED clamp
  /\ BuyFrame

\* the caller has the result
BuyReturned ==
  /\ buy.pc = "done"
  /\ buy' = BuyIdle
  /\ UNCHANGED clamp
  /\ BuyFrame

BuyNext == ClampCall \/ BuyCall \/ BuyRules \/ BuySubmit \/ BuyReturned

(* --------------------- Trader: the market rules cache ------------------- *)
\* MARKET_RULES_TTL_MS
MARKET_RULES_TTL_MS == 30000
\* the clock stops here (ms)
MaxClock == 70000
\* amounts of time that pass between two steps (ms)
ClockSteps == {10000, 20000}

\* what getOrderBook's answer carries in min_order_size / tick_size: a
\* positive number, or nothing parsePositiveNumber accepts
Books == { [min_order_size |-> Null, tick_size |-> Null],
           [min_order_size |-> Some(1100), tick_size |-> Some(1000)] }

\* parsePositiveNumber(value) ?? dflt
ParseOr(value, dflt) == IF value = Null THEN dflt ELSE Val(value)

\* the rules a fetch yields: those of the book, or the fallback when the
\* fetch threw (book = null), stamped with the `now` the lookup began with
RulesFromBook(book, now) ==
  IF book = Null
    THEN [minOrderSize |-> MIN_ORDER_SIZE, tickSize |-> FallbackTickSize,
          fetchedAt |-> now]
    ELSE [minOrderSize |-> ParseOr(Val(book).min_order_size, MIN_ORDER_SIZE),
          tickSize |-> ParseOr(Val(book).tick_size, FallbackTickSize),
          fetchedAt |-> now]

\* the cache were the fallback of a failed fetch not stored
CacheAfterFetch_FallbackNotCached(cache, tokenId, now, book) ==
  IF book = Null THEN cache
  ELSE [t \in (DOMAIN cache) \cup {tokenId} |->
          IF t = tokenId THEN RulesFromBook(book, now) ELSE cache[t]]

\* this.tokenRulesCache.set(tokenId, rules) / .set(tokenId, fallback)
CacheAfterFetch(cache, tokenId, now, book) ==
  [t \in (DOMAIN cache) \cup {tokenId} |->
     IF t = tokenId THEN RulesFromBook(book, now) ELSE cache[t]]

\* `cached && now - cached.fetchedAt < MARKET_RULES_TTL_MS`
CacheFresh(cache, tokenId, now) ==
  tokenId \in DOMAIN cache /\ now - cache[tokenId].fetchedAt < MARKET_RULES_TTL_MS

EmptyCache == [t \in {} |-> 0]

\* the lookup under way, and for every token when the last lookup that
\* went to the exchange began (began) and returned (completed) and whether
\* its fetch failed (fellBack)
LookupIdle == [pc |-> "idle", tokenId |-> 0, now |-> 0, hit |-> FALSE,
               fetches |-> 0, result |-> Null,
               prevBegan |-> Null, prevCompleted |-> Null,
               began |-> [t \in Tokens |-> Null],
               completed |-> [t \in Tokens |-> Null],
               fellBack |-> [t \in Tokens |-> FALSE]]

RulesFrame ==
  UNCHANGED <<botVars, sellVars, buy, clamp, xop, streamVars, feedVars, sourceVars,
              evaluation>>

\* time passes
ClockTick ==
  /\ \E d \in ClockSteps : clock + d <= MaxClock /\ clock' = clock + d
  /\ UNCHANGED <<tokenRulesCache, lookup>>
  /\ RulesFrame

\* fetchTokenMarketRules(tokenId) is called: a fresh cached entry is
\* returned, otherwise the order book is requested
LookupCall ==
  /\ lookup.pc = "idle"
  /\ \E tokenId \in Tokens :
       LET l == [lookup EXCEPT !.tokenId = tokenId, !.now = clock,
                               !.fetches = 0, !.result = Null,
                               !.prevBegan = lookup.began[tokenId],
                               !.prevCompleted = lookup.completed[tokenId]]
       IN IF CacheFresh(tokenRulesCache, tokenId, clock)
            THEN lookup' = [l EXCEPT !.pc = "done", !.hit = TRUE,
                                     !.result = Some(tokenRulesCache[tokenId])]
            ELSE lookup' = [l EXCEPT !.pc = "fetching", !.hit = FALSE]
  /\ UNCHANGED <<tokenRulesCache, clock>>
  /\ RulesFrame

\* the order book request settles: with a book, or by throwing
LookupFetched ==
  /\ lookup.pc = "fetching"
  /\ \E book \in {Null} \cup {Some(b) : b \in Books} :
       /\ tokenRulesCache' = CacheAfterFetch(tokenRulesCache, lookup.tokenId,
                                             lookup.now, book)
       /\ lookup' = [lookup EXCEPT
            !.pc = "done", !.fetches = @ + 1,
            !.result = Some(RulesFromBook(book, lookup.now)),
            !.began[lookup.tokenId] = Some(lookup.now),
            !.completed[lookup.tokenId] = Some(clock),
            !.fellBack[lookup.tokenId] = (book = Null)]
  /\ UNCHANGED clock
  /\ RulesFrame

\* the caller has the rules
LookupReturned ==
  /\ lookup.pc = "done"
  /\ lookup' = [lookup EXCEPT !.pc = "idle"]
  /\ UNCHANGED <<tokenRulesCache, clock>>
  /\ RulesFrame

RulesNext == ClockTick \/ LookupCall \/ LookupFetched \/ LookupReturned

(* ------------- Trader: what each operation sends the exchange ----------- *)
(* A run of an operation is the sequence of the calls it makes that leave   *)
(* the process: clobLimiter.acquire() and the exchange client's methods.    *)
\* polls a polling loop makes in one run, at most
MaxPolls == 2

\* `await clobLimiter.acquire()`: returns once the limiter has a slot
Acquire == "acquire"
\* `await clobLimiter.acquire(); await client.<call>(...)`
Guarded(call) == <<Acquire, call>>

Cat(A, B) == {a \o b : a \in A, b \in B}
\* 1..n runs of A one after the other
RECURSIVE Repeat(_, _)
Repeat(A, n) == IF n <= 1 THEN A ELSE A \cup Cat(A, Repeat(A, n - 1))

\* init(): credentials from the environment, or derived at the exchange
InitRuns == {<<>>, <<"createOrDeriveApiKey">>}
GetBalanceRuns == {Guarded("getBalanceAllowance")}
GetPositionBalanceRuns == {Guarded("getBalanceAllowance")}
WaitForPositionBalanceRuns == {<<>>} \cup Repeat(GetPositionBalanceRuns, MaxPolls)
GetPriceRuns == {Guarded("getOrderBook")}
\* a cache hit; the client's order book; without a client, the REST book
FetchTokenMarketRulesRuns == {<<>>, Guarded("getOrderBook"), Guarded("fetchBook")}
\* ... as called where ensureClient() has passed: this.client is set
FetchRulesWithClientRuns == {<<>>, Guarded("getOrderBook")}
GetOpenOrdersRuns == {Guarded("getOpenOrders")}

\* getOrder as it would be without taking a limiter slot
GetOrderRuns_NoAcquire == {<<"getOrder">>}

GetOrderRuns == {Guarded("getOrder")}
\* the loop's polls (none when the timeout is 0), then the final query
WaitForFillRuns == Repeat(GetOrderRuns, MaxPolls + 1)

\* validation that failed (before or after getMinOrderSize), that passed
ValidationFailedRuns ==
  GetPositionBalanceRuns \cup Cat(GetPositionBalanceRuns, FetchRulesWithClientRuns)
ValidationPassedRuns == Cat(GetPositionBalanceRuns, FetchRulesWithClientRuns)

BuyRuns ==
  {<<>>} \cup FetchRulesWithClientRuns
         \cup Cat(FetchRulesWithClientRuns, {Guarded("createAndPostOrder")})

\* one limitSell attempt that submitted its order
LimitOrderRuns ==
  Cat(Cat(ValidationPassedRuns, FetchRulesWithClientRuns),
      {Guarded("createAndPostOrder")})
RECURSIVE LimitSellRuns(_)
LimitSellRuns(attemptsLeft) ==
  IF attemptsLeft = 0 THEN {<<>>}
  ELSE ValidationFailedRuns \cup LimitOrderRuns
         \cup Cat(LimitOrderRuns, LimitSellRuns(attemptsLeft - 1))

\* one marketSell attempt that submitted its order: rejected, or polled
MarketOrderRuns ==
  LET placed == Cat(Cat(ValidationPassedRuns, FetchRulesWithClientRuns),
                    {Guarded("createAndPostMarketOrder")})
  IN placed \cup Cat(placed, WaitForFillRuns)
RECURSIVE MarketSellRuns(_)
MarketSellRuns(attemptsLeft) ==
  IF attemptsLeft = 0 THEN {<<>>}
  ELSE LET attempt == ValidationFailedRuns \cup MarketOrderRuns
       IN attempt \cup Cat(attempt, MarketSellRuns(attemptsLeft - 1))

CancelOrdersForMarketRuns == {Guarded("cancelMarketOrders")}

\* String.includes on a phrase: the words occur next to each other
IncludesPhrase(msg, phrase) ==
  \E i \in 1..Len(msg) :
    i + Len(phrase) - 1 <= Len(msg) /\ SubSeq(msg, i, i + Len(phrase) - 1) = phrase

\* cancelOrder's loop from the given attempt; responses[i] is what the i-th
\* client.cancelOrder call did: null when it resolved, else the message of
\* the error it threw.  The result, and the number of calls made.
RECURSIVE CancelOrder(_, _, _)
CancelOrder(responses, attempt, maxRetries) ==
  IF attempt > maxRetries THEN [result |-> FALSE, calls |-> attempt - 1]
  ELSE LET r == responses[attempt]
       IN IF r = Null THEN [result |-> TRUE, calls |-> attempt]
          ELSE IF \/ IncludesPhrase(Val(r), <<"not", "found">>)
                  \/ Includes(Val(r), "already")
                  \/ Includes(Val(r), "cancelled")
                 THEN [result |-> TRUE, calls |-> attempt]
                 ELSE CancelOrder(responses, attempt + 1, maxRetries)

\* cancelOrdersForToken / cancelAllOrders: true when the call resolved,
\* false when it threw
CancelOrdersForToken(response) == response = Null
CancelAllOrders(response) == response = Null

\* what a cancel call of the client does: resolves, or throws
CancelResponses ==
  {Null, Some(<<"order", "not", "found">>), Some(<<"order", "already", "cancelled">>),
   Some(<<"network", "timeout">>)}

NTimes(tr, n) == [i \in 1..(n * Len(tr)) |-> tr[((i - 1) % Len(tr)) + 1]]

RunsOf(op) ==
  CASE op = "init" -> InitRuns
    [] op = "getBalance" -> GetBalanceRuns
    [] op = "getPositionBalance" -> GetPositionBalanceRuns
    [] op = "waitForPositionBalance" -> WaitForPositionBalanceRuns
    [] op = "getPrice" -> GetPriceRuns
    [] op = "fetchTokenMarketRules" -> FetchTokenMarketRulesRuns
    [] op = "buy" -> BuyRuns
    [] op = "limitSell" -> LimitSellRuns(DefaultMaxRetries)
    [] op = "marketSell" -> MarketSellRuns(DefaultMaxRetries)
    [] op = "getOpenOrders" -> GetOpenOrdersRuns
    [] op = "getOrder" -> GetOrderRuns
    [] op = "waitForFill" -> WaitForFillRuns
    [] op = "cancelOrdersForMarket" -> CancelOrdersForMarketRuns
    [] OTHER -> {}

PlainOps == {"init", "getBalance", "getPositionBalance", "waitForPositionBalance",
             "getPrice", "fetchTokenMarketRules", "buy", "limitSell", "marketSell",
             "getOpenOrders", "getOrder", "waitForFill", "cancelOrdersForMarket"}
CancelOps == {"cancelOrder", "cancelOrdersForToken", "cancelAllOrders"}

XopIdle == [op |-> "none", pc |-> "idle", todo |-> <<>>, prev |-> "", cur |-> "",
            responses |-> <<>>, result |-> Null]

XopFrame == UNCHANGED <<botVars, sellVars, buy, clamp, tokenRulesCache, clock,
                        lookup, streamVars, feedVars, sourceVars, evaluation>>

\* an operation other than the three cancellations starts on one of its runs
XCall ==
  /\ xop.pc = "idle"
  /\ \E op \in PlainOps : \E run \in RunsOf(op) :
       xop' = [XopIdle EXCEPT !.op = op, !.pc = "running", !.todo = run]
  /\ XopFrame

\* one of the three cancellations starts; the exchange's answers are drawn
XCancelCall ==
  /\ xop.pc = "idle"
  /\ \/ \E responses \in [1..DefaultMaxRetries -> CancelResponses] :
          LET c == CancelOrder(responses, 1, DefaultMaxRetries)
          IN xop' = [XopIdle EXCEPT
                       !.op = "cancelOrder", !.pc = "running",
                       !.todo = NTimes(Guarded("cancelOrder"), c.calls),
                       !.responses = SubSeq(responses, 1, c.calls),
                       !.result = Some(c.result)]
     \/ \E response \in CancelResponses :
          xop' = [XopIdle EXCEPT
                    !.op = "cancelOrdersForToken", !.pc = "running",
                    !.todo = Guarded("cancelMarketOrders"),
                    !.responses = <<response>>,
                    !.result = Some(CancelOrdersForToken(response))]
     \/ \E response \in CancelResponses :
          xop' = [XopIdle EXCEPT
                    !.op = "cancelAllOrders", !.pc = "running",
                    !.todo = Guarded("cancelAll"),
                    !.responses = <<response>>,
                    !.result = Some(CancelAllOrders(response))]
  /\ XopFrame

\* the operation makes its next call
XStep ==
  /\ xop.pc = "running"
  /\ xop.todo # <<>>
  /\ xop' = [xop EXCEPT !.prev = xop.cur, !.cur = Head(xop.todo),
                        !.todo = Tail(xop.todo)]
  /\ XopFrame

\* the operation returns
XReturn ==
  /\ xop.pc = "running"
  /\ xop.todo = <<>>
  /\ xop' = [xop EXCEPT !.pc = "returned"]
  /\ XopFrame

\* the caller has the result
XDone ==
  /\ xop.pc = "returned"
  /\ xop' = XopIdle
  /\ XopFrame

ExchangeNext == XCall \/ XCancelCall \/ XStep \/ XReturn \/ XDone

(* ----------------------------- PriceStream ------------------------------ *)
\* WebSocket objects that can exist at a time (a closed one is collected)
MaxSockets == 2
\* the delay of the reconnect timeout set in onclose
ReconnectDelayMs == 3000

SocketIds == 1..MaxSockets
Range(seq) == {seq[i] : i \in 1..Len(seq)}

\* Set.add of each id in turn; the Set keeps insertion order
RECURSIVE AddAll(_, _)
AddAll(subs, ids) ==
  IF ids = <<>> THEN subs
  ELSE AddAll(IF Head(ids) \in Range(subs) THEN subs ELSE Append(subs, Head(ids)),
              Tail(ids))

\* tokenIds.filter(id => !this.subscriptions.has(id))
NewTokenIds(subs, tokenIds) == SelectSeq(tokenIds, LAMBDA id : id \notin Range(subs))

\* sendSubscription(tokenIds): the messages it sends, none unless this.ws
\* is OPEN
SendSubscription(socks, wsRef, tokenIds) ==
  IF wsRef # 0 /\ socks[wsRef] = "OPEN" THEN << tokenIds >> ELSE << >>

\* onopen without the resubscription
OnOpenMessages_NoResubscribe(socks, wsRef, subs) == << >>

\* onopen: `if (this.subscriptions.size > 0) this.sendSubscription([...])`
OnOpenMessages(socks, wsRef, subs) ==
  IF Len(subs) > 0 THEN SendSubscription(socks, wsRef, subs) ELSE << >>

\* subscribe as it would be if it sent the whole list it was given
SubscribeMessages_AllIds(socks, wsRef, isConn, subs, tokenIds) ==
  IF Len(tokenIds) > 0 /\ isConn /\ wsRef # 0 /\ socks[wsRef] = "OPEN"
    THEN SendSubscription(socks, wsRef, tokenIds)
    ELSE << >>

\* subscribe: the messages it sends
SubscribeMessages(socks, wsRef, isConn, subs, tokenIds) ==
  LET newTokenIds == NewTokenIds(subs, tokenIds)
  IN IF Len(newTokenIds) > 0 /\ isConn /\ wsRef # 0 /\ socks[wsRef] = "OPEN"
       THEN SendSubscription(socks, wsRef, newTokenIds)
       ELSE << >>

\* onclose without the reconnect timeout
TimersAfterClose_NoReconnect(pending) == pending

\* onclose: `this.reconnectTimer = setTimeout(() => this.connect(), 3000)`,
\* on the number of reconnect timeouts pending
TimersAfterClose(pending) == pending + 1

\* clearTimeout(this.reconnectTimer): the handle is that of the timeout set
\* handled, which is pending whenever any is
TimersAfterClear(pending) == IF pending > 0 THEN pending - 1 ELSE 0

\* isConnected()
IsConnected == connected /\ ws # 0 /\ sockets[ws] = "OPEN"

\* lists of ids a caller passes to subscribe
IdLists == {<< >>} \cup {<<a>> : a \in Tokens} \cup {<<a, b>> : a, b \in Tokens}

\* the handler that ran last: its name, its input, the tracked ids before
\* it, the messages it sent, the delay of the timeout it set; via is the
\* caller of the connect() that made the current socket
LastIdle == [h |-> "none", via |-> "none", ids |-> << >>, before |-> << >>,
             wasConnected |-> FALSE, sent |-> << >>, delay |-> 0]

StreamFrame == UNCHANGED <<botVars, sellVars, execVars, feedVars, evaluation>>

\* the slot of a new WebSocket object: the lowest one holding no live socket
FreeSocket ==
  IF \E i \in SocketIds : sockets[i] \in {"NONE", "CLOSED"}
    THEN CHOOSE i \in SocketIds :
           /\ sockets[i] \in {"NONE", "CLOSED"}
           /\ \A j \in SocketIds : sockets[j] \in {"NONE", "CLOSED"} => i <= j
    ELSE 0

\* connect(): `this.ws = new WebSocket(WS_URL)` and its handlers
Connect(by) ==
  /\ FreeSocket # 0
  /\ sockets' = [sockets EXCEPT ![FreeSocket] = "CONNECTING"]
  /\ ws' = FreeSocket
  /\ handled' = [LastIdle EXCEPT !.h = by, !.via = by]

\* the onclose handler of any socket
OnClose(h) ==
  /\ connected' = FALSE
  /\ pingTimer' = FALSE
  /\ reconnectTimer' = TimersAfterClose(reconnectTimer)
  /\ handled' = [LastIdle EXCEPT !.via = handled.via, !.h = h,
                !.delay = IF TimersAfterClose(reconnectTimer) > reconnectTimer
                            THEN ReconnectDelayMs ELSE 0]

\* the owner (Bot.init) connects the stream it has just obtained
StreamConnect ==
  /\ \A i \in SocketIds : sockets[i] = "NONE"
  /\ ~closedByOwner
  /\ Connect("connect")
  /\ connectPromise' = "pending"
  /\ UNCHANGED <<connected, subscriptions, reconnectTimer, pingTimer, closedByOwner>>
  /\ UNCHANGED <<wsConnected, sourced>>
  /\ StreamFrame

\* the connection of socket i is established: onopen; its resolve() settles
\* the promise of the connect() call that made the socket, and the Bot.init
\* awaiting that promise sets state.wsConnected
SockOpen(i) ==
  /\ sockets[i] = "CONNECTING"
  /\ sockets' = [sockets EXCEPT ![i] = "OPEN"]
  /\ connected' = TRUE
  /\ pingTimer' = TRUE
  /\ handled' = [LastIdle EXCEPT !.via = handled.via, !.h = "onopen", !.before = subscriptions,
                              !.sent = OnOpenMessages(sockets', ws, subscriptions)]
  /\ IF connectPromise = "pending" /\ handled.via = "connect"
       THEN connectPromise' = "resolved" /\ wsConnected' = TRUE
       ELSE UNCHANGED <<wsConnected, connectPromise>>
  /\ UNCHANGED sourced
  /\ UNCHANGED <<ws, subscriptions, reconnectTimer, closedByOwner>>
  /\ StreamFrame

\* the connection attempt of socket i fails: onerror, then onclose
SockFail(i) ==
  /\ sockets[i] = "CONNECTING"
  /\ sockets' = [sockets EXCEPT ![i] = "CLOSED"]
  /\ OnClose("onclose_failed")
  /\ UNCHANGED <<ws, subscriptions, closedByOwner>>
  /\ UNCHANGED sourceVars
  /\ StreamFrame

\* the open socket i starts closing (the peer's close frame, a lost link):
\* readyState is CLOSING and no handler has run yet
SockClosing(i) ==
  /\ sockets[i] = "OPEN"
  /\ sockets' = [sockets EXCEPT ![i] = "CLOSING"]
  /\ handled' = [LastIdle EXCEPT !.via = handled.via, !.h = "closing"]
  /\ UNCHANGED <<ws, connected, subscriptions, reconnectTimer, pingTimer, closedByOwner>>
  /\ UNCHANGED sourceVars
  /\ StreamFrame

\* socket i is closed: onclose
SockClosed(i) ==
  /\ sockets[i] = "CLOSING"
  /\ sockets' = [sockets EXCEPT ![i] = "CLOSED"]
  /\ OnClose("onclose")
  /\ UNCHANGED <<ws, subscriptions, closedByOwner>>
  /\ UNCHANGED sourceVars
  /\ StreamFrame

\* the reconnect timeout fires: connect()
ReconnectFire ==
  /\ reconnectTimer > 0
  /\ reconnectTimer' = reconnectTimer - 1
  /\ Connect("reconnect")
  /\ UNCHANGED <<connected, subscriptions, pingTimer, closedByOwner>>
  /\ UNCHANGED sourceVars
  /\ StreamFrame

\* subscribe(tokenIds)
Subscribe ==
  /\ \E tokenIds \in IdLists :
       /\ subscriptions' = AddAll(subscriptions, NewTokenIds(subscriptions, tokenIds))
       /\ handled' = [LastIdle EXCEPT !.via = handled.via,
                     !.h = "subscribe", !.ids = tokenIds, !.before = subscriptions,
                     !.wasConnected = IsConnected,
                     !.sent = SubscribeMessages(sockets, ws, connected,
                                                subscriptions, tokenIds)]
  /\ UNCHANGED <<sockets, ws, connected, reconnectTimer, pingTimer, closedByOwner>>
  /\ UNCHANGED sourceVars
  /\ StreamFrame

\* close(): the timers are cleared, the socket is told to close
StreamClose ==
  /\ reconnectTimer' = TimersAfterClear(reconnectTimer)
  /\ pingTimer' = FALSE
  /\ IF ws # 0
       THEN /\ sockets' = [sockets EXCEPT
                             ![ws] = IF @ \in {"CONNECTING", "OPEN"} THEN "CLOSING" ELSE @]
            /\ ws' = 0
       ELSE UNCHANGED <<sockets, ws>>
  /\ connected' = FALSE
  /\ closedByOwner' = TRUE
  /\ handled' = [LastIdle EXCEPT !.via = handled.via, !.h = "close"]
  /\ UNCHANGED subscriptions
  /\ UNCHANGED sourceVars
  /\ StreamFrame

StreamNext ==
  \/ StreamConnect
  \/ \E i \in SocketIds : SockOpen(i)
  \/ \E i \in SocketIds : SockFail(i)
  \/ \E i \in SocketIds : SockClosing(i)
  \/ \E i \in SocketIds : SockClosed(i)
  \/ ReconnectFire
  \/ Subscribe
  \/ StreamClose

(* ----------------------- PriceStream: the messages ---------------------- *)
(* Quotes count 0.01, so the price 1 is QuoteOne.  A JSON field that is    *)
(* missing is null; the exchange sends prices as decimal strings, so a     *)
(* field that is present is truthy.  event_type stands for the message's   *)
(* event_type or type field.                                               *)
\* callbacks that may be registered with onPrice
MaxCallbacks == 2
\* instruments the messages are about
NumAssets == 1
\* the price 1 (an empty ask side), in units of 0.01
QuoteOne == 100

Assets == 1..NumAssets

NoPrices == [t \in {} |-> 0]

Snapshot(price, bestBid, bestAsk) ==
  [price |-> price, bestBid |-> bestBid, bestAsk |-> bestAsk]

\* getPrice(tokenId): this.prices.get(tokenId) || null
GetPrice(px, tokenId) == IF tokenId \in DOMAIN px THEN Some(px[tokenId]) ELSE Null

\* the handlers work on the snapshots and the list of updates fired so far:
\* this.prices.set(tokenId, update); this.notifyCallbacks(update)
Publish(r, tokenId, update) ==
  [prices |-> [t \in (DOMAIN r.prices) \cup {tokenId} |->
                 IF t = tokenId THEN update ELSE r.prices[t]],
   updates |-> Append(r.updates, [tokenId |-> tokenId, update |-> update])]

\* `a || b` on a number
OrElse(a, b) == IF a = 0 THEN b ELSE a

SetMax(S) == CHOOSE x \in S : \A y \in S : y <= x
SetMin(S) == CHOOSE x \in S : \A y \in S : x <= y

\* handlePriceChangeItem
HandlePriceChangeItem(r, item) ==
  IF item.asset_id = Null THEN r
  ELSE LET tokenId == Val(item.asset_id)
       IN IF item.best_bid # Null /\ item.best_ask # Null
            THEN LET bestBid == Val(item.best_bid)
                     bestAsk == Val(item.best_ask)
                 IN IF bestBid > 0 \/ bestAsk < QuoteOne
                      THEN Publish(r, tokenId,
                                   Snapshot((bestBid + bestAsk) \div 2, bestBid, bestAsk))
                      ELSE r
            ELSE LET existing == GetPrice(r.prices, tokenId)
                     price == ParseOr(item.price, 0)
                 IN IF existing # Null /\ Val(existing).bestBid # Val(existing).bestAsk
                      THEN r
                    ELSE IF price = 0 THEN r
                    ELSE Publish(r, tokenId, Snapshot(price, price, price))

\* handleBookUpdate: bids and asks are the sets of the prices listed
HandleBookUpdate(r, data) ==
  IF data.asset_id = Null THEN r
  ELSE LET tokenId == Val(data.asset_id)
           bestBid == SetMax(ParseOr(data.bids, {}) \cup {0})
           bestAsk == SetMin(ParseOr(data.asks, {}) \cup {QuoteOne})
       IN IF bestBid > 0 /\ bestAsk < QuoteOne
            THEN Publish(r, tokenId, Snapshot((bestBid + bestAsk) \div 2, bestBid, bestAsk))
          ELSE IF bestBid > 0
            THEN Publish(r, tokenId, Snapshot(bestBid, bestBid, bestAsk))
          ELSE IF bestAsk < QuoteOne
            THEN Publish(r, tokenId, Snapshot(bestAsk, bestBid, bestAsk))
          ELSE r

\* handlePriceChange as it would be if a snapshot already stored were kept
HandlePriceChange_KeepsExisting(r, data) ==
  IF data.asset_id = Null \/ Val(data.asset_id) \in DOMAIN r.prices THEN r
  ELSE Publish(r, Val(data.asset_id),
               Snapshot((ParseOr(data.best_bid, 0) + ParseOr(data.best_ask, QuoteOne)) \div 2,
                        ParseOr(data.best_bid, 0), ParseOr(data.best_ask, QuoteOne)))

\* handlePriceChange
HandlePriceChange(r, data) ==
  IF data.asset_id = Null THEN r
  ELSE LET tokenId == Val(data.asset_id)
           bestBid == ParseOr(data.best_bid, 0)
           bestAsk == ParseOr(data.best_ask, QuoteOne)
       IN IF bestBid = 0 /\ bestAsk = QuoteOne THEN r
          ELSE Publish(r, tokenId,
                       Snapshot((bestBid + bestAsk) \div 2, bestBid, bestAsk))

\* handleLastTradePrice
HandleLastTradePrice(r, data) ==
  IF data.asset_id = Null THEN r
  ELSE LET tokenId == Val(data.asset_id)
           price == ParseOr(data.price, 0)
           existing == GetPrice(r.prices, tokenId)
       IN IF price = 0 THEN r
          ELSE Publish(r, tokenId,
                 Snapshot(price,
                          IF existing = Null THEN price
                                             ELSE OrElse(Val(existing).bestBid, price),
                          IF existing = Null THEN price
                                             ELSE OrElse(Val(existing).bestAsk, price)))

\* `for (const change of data.price_changes) this.handlePriceChangeItem(change)`
RECURSIVE HandlePriceChangeItems(_, _)
HandlePriceChangeItems(r, items) ==
  IF items = << >> THEN r
  ELSE HandlePriceChangeItems(HandlePriceChangeItem(r, Head(items)), Tail(items))

\* handleMessage; an array is handled element by element
RECURSIVE HandleMessage(_, _)
RECURSIVE HandleArray(_, _)
HandleArray(r, items) ==
  IF items = << >> THEN r
  ELSE HandleArray(HandleMessage(r, Head(items)), Tail(items))

HandleMessage(r, data) ==
  IF data.event_type = "book" \/ data.bids # Null \/ data.asks # Null
    THEN HandleBookUpdate(r, data)
  ELSE IF data.price_changes # Null
    THEN HandlePriceChangeItems(r, Val(data.price_changes))
  ELSE IF data.event_type = "price_change"
    THEN HandlePriceChange(r, data)
  ELSE IF data.event_type = "last_trade_price" \/ data.price # Null
    THEN HandleLastTradePrice(r, data)
  ELSE IF data.items # Null
    THEN HandleArray(r, Val(data.items))
  ELSE r

\* notifyCallbacks as it would be without the try / catch around each call:
\* the callbacks invoked, the first that throws being the last
RECURSIVE NotifyUntilThrow(_, _)
NotifyUntilThrow(cbs, i) ==
  IF i > Len(cbs) THEN << >>
  ELSE IF cbs[i] = "throws" THEN << i >>
  ELSE << i >> \o NotifyUntilThrow(cbs, i + 1)

\* notifyCallbacks: `for (const cb of this.callbacks) try { cb(update) }
\* catch {}`, the callbacks invoked in the order of their invocation
RECURSIVE NotifyFrom(_, _)
NotifyFrom(cbs, i) ==
  IF i > Len(cbs) THEN << >>
  ELSE << i >> \o NotifyFrom(cbs, i + 1)

NotifyCallbacks_StopAtThrow(cbs) == NotifyUntilThrow(cbs, 1)

NotifyCallbacks(cbs) == NotifyFrom(cbs, 1)

(* the messages the server sends *)
\* (best bid, best ask) pairs: an empty book and a real spread
PairValues == { <<0, QuoteOne>>, <<40, 60>> }
\* last-trade prices: none, and one inside the spread but off its midpoint
TradePrices == {0, 44}
\* sides of an order book: empty, two levels
BidSides == { {}, {30, 40} }
AskSides == { {}, {60, 70} }

NoFields == [items |-> Null, event_type |-> "none", asset_id |-> Null,
             bids |-> Null, asks |-> Null, price_changes |-> Null,
             best_bid |-> Null, best_ask |-> Null, price |-> Null]

PairItems ==
  { [asset_id |-> Some(t), best_bid |-> Some(q[1]), best_ask |-> Some(q[2]),
     price |-> Null] : t \in Assets, q \in PairValues }
TradeItems ==
  { [asset_id |-> Some(t), best_bid |-> Null, best_ask |-> Null,
     price |-> Some(p)] : t \in Assets, p \in TradePrices }

PriceChangesMessages ==
  { [NoFields EXCEPT !.price_changes = Some(<< i >>)] : i \in PairItems \cup TradeItems }
PriceChangeMessages ==
  { [NoFields EXCEPT !.event_type = "price_change", !.asset_id = Some(t),
                     !.best_bid = Some(q[1]), !.best_ask = Some(q[2])] :
      t \in Assets, q \in PairValues }
BookMessages ==
  { [NoFields EXCEPT !.event_type = "book", !.asset_id = Some(t),
                     !.bids = Some(b), !.asks = Some(a)] :
      t \in Assets, b \in BidSides, a \in AskSides }
LastTradeMessages ==
  { [NoFields EXCEPT !.event_type = e, !.asset_id = Some(t), !.price = Some(p)] :
      e \in {"last_trade_price", "none"}, t \in Assets, p \in TradePrices }
ArrayMessages ==
  { [NoFields EXCEPT !.items = Some(<< m >>)] :
      m \in PriceChangeMessages \cup LastTradeMessages }
Messages ==
  PriceChangesMessages \cup PriceChangeMessages \cup BookMessages
    \cup LastTradeMessages \cup ArrayMessages
    \cup { [NoFields EXCEPT !.event_type = "last_trade_price", !.price = Some(44)] }

CallbackKinds == {"returns", "throws"}

NoDelivery == [data |-> NoFields, before |-> NoPrices, registered |-> << >>,
               updates |-> << >>, invoked |-> << >>]

FeedFrame == UNCHANGED <<botVars, sellVars, execVars, sourceVars, evaluation>>

\* onPrice(callback)
OnPrice ==
  /\ Len(callbacks) < MaxCallbacks
  /\ \E kind \in CallbackKinds : callbacks' = Append(callbacks, kind)
  /\ UNCHANGED <<prices, delivery>>
  /\ UNCHANGED streamVars
  /\ FeedFrame

\* onmessage of an open socket: JSON.parse, handleMessage
OnMessage ==
  /\ \E i \in SocketIds : sockets[i] = "OPEN"
  /\ \E data \in Messages :
       LET r == HandleMessage([prices |-> prices, updates |-> << >>], data)
       IN /\ prices' = r.prices
          /\ delivery' = [data |-> data, before |-> prices,
                          registered |-> callbacks, updates |-> r.updates,
                          invoked |-> [u \in 1..Len(r.updates) |->
                                         NotifyCallbacks(callbacks)]]
  /\ UNCHANGED callbacks
  /\ UNCHANGED streamVars
  /\ FeedFrame

FeedNext ==
  \/ StreamConnect
  \/ \E i \in SocketIds : SockOpen(i)
  \/ \E i \in SocketIds : SockClosing(i)
  \/ OnPrice
  \/ OnMessage

(* ----------------- the Bot that reads the price stream ------------------ *)

\* no stop-loss price has been looked up yet; of a lookup: the token, the
\* source taken, and whether the stream had a snapshot and was connected
NoSource == [tokenId |-> 0, source |-> "none", hadSnapshot |-> FALSE,
             connectedThen |-> FALSE]

\* `if (wsPrice && this.state.wsConnected)`
UsesStreamPrice(wsPrice, flag) == wsPrice # Null /\ flag

\* the 10 s timeout of the awaited connect() fires before the socket has
\* opened or failed: reject, and Bot.init goes on without the stream
ConnectTimeout ==
  /\ connectPromise = "pending"
  /\ handled.via = "connect"
  /\ \E i \in SocketIds : sockets[i] \in {"CONNECTING", "CLOSING"}
  /\ connectPromise' = "rejected"
  /\ UNCHANGED <<wsConnected, sourced>>
  /\ UNCHANGED <<botVars, sellVars, execVars, streamVars, feedVars, evaluation>>

\* checkStopLosses, in a tick after Bot.init has returned: the price of a
\* held token is taken from the stream or asked of the exchange
CheckPriceSource ==
  /\ connectPromise \in {"resolved", "rejected"}
  /\ \E tokenId \in Assets :
       LET wsPrice == GetPrice(prices, tokenId)
       IN sourced' = [tokenId |-> tokenId,
                      source |-> IF UsesStreamPrice(wsPrice, wsConnected)
                                   THEN "stream" ELSE "exchange",
                      hadSnapshot |-> wsPrice # Null,
                      connectedThen |-> connected]
  /\ UNCHANGED <<wsConnected, connectPromise>>
  /\ UNCHANGED <<botVars, sellVars, execVars, streamVars, feedVars, evaluation>>

SourceNext ==
  \/ StreamConnect
  \/ ConnectTimeout
  \/ \E i \in SocketIds : SockOpen(i)
  \/ \E i \in SocketIds : SockFail(i)
  \/ \E i \in SocketIds : SockClosing(i)
  \/ \E i \in SocketIds : SockClosed(i)
  \/ ReconnectFire
  \/ OnMessage
  \/ CheckPriceSource

(* ------------------- the configuration validators ----------------------- *)
(* Prices and thresholds count 0.01.                                        *)

NoEvaluation == [fn |-> "none"]

EvalFrame ==
  UNCHANGED <<botVars, sellVars, execVars, streamVars, feedVars, sourceVars>>

\* validateRange(val, min, max), on a number
ValidateRange(val, min, max) == val >= min /\ val <= max

\* errors.push when the condition holds
PushIf(cond, error) == IF cond THEN <<error>> ELSE << >>

\* validateModeConfig on a mode that is not of the dynamic-risk type
ValidateModeConfig(mode) ==
  PushIf(~ValidateRange(mode.entryThreshold, 1, 99), "entryThreshold range")
  \o PushIf(~ValidateRange(mode.maxEntryPrice, 1, 99), "maxEntryPrice range")
  \o PushIf(~ValidateRange(mode.stopLoss, 1, 99), "stopLoss range")
  \o PushIf(~ValidateRange(mode.profitTarget, 1, 99), "profitTarget range")
  \o PushIf(~ValidateRange(mode.maxSpread, 0, 50), "maxSpread range")
  \o PushIf(mode.timeWindowMs <= 0, "timeWindowMs")
  \o PushIf(mode.stopLoss >= mode.entryThreshold, "stopLoss < entryThreshold")
  \o PushIf(mode.entryThreshold > mode.maxEntryPrice, "entryThreshold <= maxEntryPrice")
  \o PushIf(mode.maxEntryPrice >= mode.profitTarget, "maxEntryPrice < profitTarget")

\* validateConfig of the environment configuration (an EOA signature type,
\* a positive paper balance, at least one position); any error ends the
\* process
ValidateConfig(config) ==
  PushIf(~ValidateRange(config.entryThreshold, 0, 100), "ENTRY_THRESHOLD")
  \o PushIf(~ValidateRange(config.stopLoss, 0, 100), "STOP_LOSS")
  \o PushIf(~ValidateRange(config.maxEntryPrice, 0, 100), "MAX_ENTRY_PRICE")
  \o PushIf(config.stopLoss >= config.entryThreshold, "STOP_LOSS < ENTRY_THRESHOLD")
  \o PushIf(config.entryThreshold > config.maxEntryPrice,
            "ENTRY_THRESHOLD <= MAX_ENTRY_PRICE")
  \o PushIf(~ValidateRange(config.maxSpread, 0, 100), "MAX_SPREAD")
  \o PushIf(config.timeWindowMs <= 0, "TIME_WINDOW_MINS")

\* validateBacktestConfig (risk mode "normal", slippage and starting
\* balance in range); any error is thrown
ValidateBacktestConfig(config) ==
  PushIf(config.entryThreshold < 1 \/ config.entryThreshold > 99, "entryThreshold range")
  \o PushIf(config.maxEntryPrice < 1 \/ config.maxEntryPrice > 99, "maxEntryPrice range")
  \o PushIf(config.stopLoss < 1 \/ config.stopLoss > 99, "stopLoss range")
  \o PushIf(config.profitTarget < 1 \/ config.profitTarget > 99, "profitTarget range")
  \o PushIf(config.maxSpread < 0 \/ config.maxSpread > 50, "maxSpread range")
  \o PushIf(config.entryThreshold >= config.maxEntryPrice, "entryThreshold < maxEntryPrice")
  \o PushIf(config.stopLoss >= config.entryThreshold, "stopLoss < entryThreshold")
  \o PushIf(config.maxEntryPrice >= config.profitTarget, "maxEntryPrice < profitTarget")
  \o PushIf(config.timeWindowMs < 30000 \/ config.timeWindowMs > 900000, "timeWindowMs")

\* the configurations validated: thresholds in range in any order, the
\* other fields valid or not
Thresholds == {50, 80, 95}
Configs ==
  [entryThreshold : Thresholds, maxEntryPrice : Thresholds, stopLoss : Thresholds,
   profitTarget : {90, 99}, maxSpread : {3, 60}, timeWindowMs : {300000}]

\* a mode of the configuration file is validated
ValidateMode ==
  /\ \E mode \in Configs :
       evaluation' = [fn |-> "validateModeConfig", input |-> mode,
                      errors |-> ValidateModeConfig(mode)]
  /\ EvalFrame

\* the environment configuration is validated
ValidateEnv ==
  /\ \E config \in Configs :
       evaluation' = [fn |-> "validateConfig", input |-> config,
                      errors |-> ValidateConfig(config)]
  /\ EvalFrame

\* a backtest configuration is validated
ValidateBacktest ==
  /\ \E config \in Configs :
       evaluation' = [fn |-> "validateBacktestConfig", input |-> config,
                      errors |-> ValidateBacktestConfig(config)]
  /\ EvalFrame

ConfigNext == ValidateMode \/ ValidateEnv \/ ValidateBacktest

(* ------------------- the entry conditions -------------------------------- *)
(* The prices of shouldEnter are JavaScript numbers: IEEE-754 doubles. A     *)
(* double close to a price of c hundredths is held exactly as the record     *)
(* [c, r] of value c/100 + r/(100 * 2^59): r is the rounding error of the    *)
(* double, far below one hundredth (|r| < 2^14, one hundredth is 2^59).      *)

RECURSIVE Pow2Mod100(_)
Pow2Mod100(n) == IF n = 0 THEN 1 ELSE (2 * Pow2Mod100(n - 1)) % 100

RECURSIVE Pow2(_)
Pow2(n) == IF n = 0 THEN 1 ELSE 2 * Pow2(n - 1)

\* the number of fraction bits of a double in the binade of c/100, for
\* c in 1..99: 53 significant bits
FractionBits(c) ==
  IF c >= 50 THEN 53 ELSE IF c >= 25 THEN 54 ELSE IF c >= 13 THEN 55
  ELSE IF c >= 7 THEN 56 ELSE IF c >= 4 THEN 57 ELSE IF c >= 2 THEN 58 ELSE 59

\* the number a decimal literal such as 0.80 denotes: the double nearest to
\* c/100. rem is the part of c/100 below the last fraction bit, in hundredths
\* of that bit (never a tie for c in 1..99)
DoubleOf(c) ==
  IF c = 0 \/ c = 100 THEN [c |-> c, r |-> 0]
  ELSE LET b == FractionBits(c)
           rem == (c * Pow2Mod100(b)) % 100
       IN [c |-> c,
           r |-> (IF rem > 50 THEN 100 - rem ELSE 0 - rem) * Pow2(59 - b)]

\* x - y on doubles of [0.5, 1]: both are multiples of 2^-53 and the
\* difference is below 1, so the subtraction does not round
DoubleSub(x, y) == [c |-> x.c - y.c, r |-> x.r - y.r]

\* x > y and x < y on doubles
DoubleGreater(x, y) == x.c > y.c \/ (x.c = y.c /\ x.r > y.r)
DoubleLess(x, y) == DoubleGreater(y, x)

\* shouldEnter(params), the fields of params written as decimal literals
\* of hundredths
ShouldEnter(params) ==
  LET askPrice == DoubleOf(params.askPrice)
      bidPrice == DoubleOf(params.bidPrice)
      entryThreshold == DoubleOf(params.entryThreshold)
      maxEntryPrice == DoubleOf(params.maxEntryPrice)
      maxSpread == DoubleOf(params.maxSpread)
      profitTarget == DoubleOf(params.profitTarget)
      spread == DoubleSub(askPrice, bidPrice)
  IN IF DoubleGreater(spread, maxSpread)
       THEN [valid |-> FALSE, reason |-> "spread"]
     ELSE IF DoubleLess(askPrice, entryThreshold)
       THEN [valid |-> FALSE, reason |-> "threshold"]
     ELSE IF DoubleGreater(askPrice, maxEntryPrice)
       THEN [valid |-> FALSE, reason |-> "max entry"]
     ELSE IF ~DoubleLess(askPrice, profitTarget)
       THEN [valid |-> FALSE, reason |-> "profit target"]
     ELSE [valid |-> TRUE, reason |-> "none"]

\* the quotes and configurations evaluated: the quotes of the tests and of
\* the specification's examples, all in [0.5, 1]
AskPrices == {80, 93, 96, 98, 99}
BidPrices == {76, 77, 91, 92, 94, 95, 96, 97}
EntryParams ==
  [askPrice : AskPrices, bidPrice : BidPrices, entryThreshold : {80, 95},
   maxEntryPrice : {98, 99}, maxSpread : {3}, profitTarget : {99}]

\* an entry signal is evaluated
EvaluateEntry ==
  /\ \E params \in EntryParams :
       evaluation' = [fn |-> "shouldEnter", input |-> params,
                      result |-> ShouldEnter(params)]
  /\ EvalFrame

EntryNext == EvaluateEntry

Init ==
  /\ phase = "constructed"
  /\ tradingEnabled = FALSE
  /\ initError = Null
  /\ running = FALSE
  /\ intervalSet = FALSE
  /\ timers = 0
  /\ awaited = {}
  /\ stateBalance = Some(0)
  /\ positions = EmptyMap
  /\ nextOrd = 1
  /\ ticks = [k \in TickIds |-> IdleTick]
  /\ control = NoControl
  /\ trades = <<>>
  /\ sell = SellIdle
  /\ buy = BuyIdle
  /\ clamp = ClampIdle
  /\ tokenRulesCache = EmptyCache
  /\ clock = 0
  /\ lookup = LookupIdle
  /\ xop = XopIdle
  /\ sockets = [i \in SocketIds |-> "NONE"]
  /\ ws = 0
  /\ connected = FALSE
  /\ subscriptions = << >>
  /\ reconnectTimer = 0
  /\ pingTimer = FALSE
  /\ closedByOwner = FALSE
  /\ handled = LastIdle
  /\ prices = NoPrices
  /\ callbacks = << >>
  /\ delivery = NoDelivery
  /\ wsConnected = FALSE
  /\ connectPromise = "none"
  /\ sourced = NoSource
  /\ evaluation = NoEvaluation

Next ==
  \/ BotInit
  \/ Start
  \/ Stop
  \/ Restart
  \/ \E k \in TickIds : TimerFire(k)
  \/ \E k \in TickIds : TickBalance(k)
  \/ \E k \in TickIds : TickPrice(k)
  \/ \E k \in TickIds : TickSold(k)
  \/ \E k \in TickIds : TickEligible(k)
  \/ \E k \in TickIds : TickEnterBalance(k)
  \/ \E k \in TickIds : TickBought(k)

Spec == Init /\ [][Next]_vars

ControlSpec == Init /\ [][ControlNext]_vars

SessionSpec == Init /\ [][SessionNext]_vars

SellSpec == Init /\ [][SellNext]_vars

\* the runtime runs every pending continuation of the call: timers fire and
\* the awaited exchange calls settle
FairSellSpec == SellSpec /\ WF_vars(SellNext)

BuySpec == Init /\ [][BuyNext]_vars

RulesSpec == Init /\ [][RulesNext]_vars

ExchangeSpec == Init /\ [][ExchangeNext]_vars

StreamSpec == Init /\ [][StreamNext]_vars

FeedSpec == Init /\ [][FeedNext]_vars

SourceSpec == Init /\ [][SourceNext]_vars

ConfigSpec == Init /\ [][ConfigNext]_vars
EntrySpec == Init /\ [][EntryNext]_vars

\* a pending timeout fires and a socket that is closing gets closed
FairStreamSpec ==
  StreamSpec /\ WF_vars(ReconnectFire) /\ WF_vars(\E i \in SocketIds : SockClosed(i))

\* a pending timeout fires (the 10 s one of connect() too), a connection
\* attempt ends by opening or failing, a closing socket gets closed
FairSourceSpec ==
  /\ SourceSpec
  /\ WF_vars(ConnectTimeout)
  /\ WF_vars(ReconnectFire)
  /\ WF_vars(\E i \in SocketIds : SockOpen(i) \/ SockFail(i))
  /\ WF_vars(\E i \in SocketIds : SockClosed(i))

(* ------------------- the ledger's interface on its own ------------------ *)
\* insertTrade called with any field values.
LedgerInsert ==
  /\ Len(trades) < MaxTrades
  /\ \E t \in Tokens, p \in Prices, sh \in BuyShares :
       /\ trades' = InsertTrade(trades, t, p, sh)
       /\ control' = [NoControl EXCEPT !.call = "insertTrade", !.tokenId = t,
                                       !.price = p, !.shares = sh]
  /\ UNCHANGED <<phase, tradingEnabled, initError, running, intervalSet, timers, awaited,
                 stateBalance, positions, nextOrd, ticks>>
  /\ UNCHANGED nonBotVars

\* closeTrade called with any id (also one that has no row), exit price and
\* terminal status.
LedgerClose ==
  /\ \E id \in 1..(MaxTrades + 1), p \in Prices, st \in {"STOPPED", "RESOLVED"} :
       /\ trades' = CloseTrade(trades, id, p, st)
       /\ control' = [NoControl EXCEPT !.call = "closeTrade", !.id = id,
                                       !.price = p, !.status = st]
  /\ UNCHANGED <<phase, tradingEnabled, initError, running, intervalSet, timers, awaited,
                 stateBalance, positions, nextOrd, ticks>>
  /\ UNCHANGED nonBotVars

LedgerNext == LedgerInsert \/ LedgerClose

LedgerSpec == Init /\ [][LedgerNext]_vars

\* the bot is initialised, and initialised again after a restart, over any
\* ledger contents
RestartNext ==
  \/ LedgerInsert
  \/ LedgerClose
  \/ BotInit
  \/ Restart

RestartSpec == Init /\ [][RestartNext]_vars

\* the stop-loss pass of the ticks over positions loaded from the ledger
StopLossNext ==
  \/ LedgerInsert
  \/ BotInit
  \/ Start
  \/ \E k \in TickIds : TimerFire(k)
  \/ \E k \in TickIds : TickBalance(k)
  \/ \E k \in TickIds : TickPrice(k)
  \/ \E k \in TickIds : TickSold(k)

StopLossSpec == Init /\ [][StopLossNext]_vars

(* ============================== claims ================================= *)

OpenRecords(t) ==
  {i \in 1..Len(trades) : trades[i].token_id = t /\ trades[i].status = "OPEN"}

\* C1: for every token id, in every reachable state under any interleaving
\* of tick cycles, the ledger holds at most one OPEN trade record of that
\* token and the position Map holds at most one position for it.
C1_AtMostOneOpenPerToken ==
  \A t \in Tokens :
    /\ Cardinality(OpenRecords(t)) <= 1
    /\ Cardinality({u \in DOMAIN positions : u = t}) <= 1

\* tick k is inside an entry (enterPosition: balance read, buy, insert) on t
Entering(k, t) == ticks[k].pc \in {"enterBalance", "buy"} /\ ticks[k].cur = t
\* tick k is inside an exit (stop-loss check, marketSell, close) on t
Exiting(k, t) == ticks[k].pc \in {"getPrice", "marketSell"} /\ ticks[k].cur = t

\* C2: for any single token, an entry and an exit, or two entries, or two
\* exits, are never in progress at the same time.
C2_NoConcurrentActionPerToken ==
  \A t \in Tokens :
    Cardinality({k \in TickIds : Entering(k, t) \/ Exiting(k, t)}) <= 1

\* C3: once a trade record is STOPPED or RESOLVED, no ledger operation
\* changes its status (neither back to OPEN nor to the other terminal
\* status).
C3_TerminalStatusIsFinal ==
  [][\A i \in 1..Len(trades) :
       trades[i].status # "OPEN" => trades'[i].status = trades[i].status]_vars

\* C4: exit price and pnl of a trade record are null exactly while its
\* status is OPEN, and once written (with the status transition) they are
\* never written again, also not by a concurrent tick closing the position.
C4_ExitFieldsWrittenOnce ==
  /\ [](\A i \in 1..Len(trades) :
          /\ (trades[i].status = "OPEN") <=> (trades[i].exit_price = Null)
          /\ (trades[i].status = "OPEN") <=> (trades[i].pnl = Null))
  /\ [][\A i \in 1..Len(trades) :
          trades[i].status # "OPEN" =>
            /\ trades'[i].exit_price = trades[i].exit_price
            /\ trades'[i].pnl = trades[i].pnl]_vars

(* claims about the sell path; hist[i] is how attempt i of the call ended *)

Market == sell.kind = "market"
\* attempt j of the call under way was started
AttemptMade(j) == j <= sell.attempt /\ j <= sell.maxRetries
OrdersAfter(i) == {n \in 1..Len(sell.orders) : sell.orders[n].attempt > i}

\* C5: in marketSell and limitSell every attempt first re-reads the
\* exchange-held balance, and every sell order submitted has the size
\* min(requested shares, balance read for that attempt), never more than
\* that balance.
C5_SellSizeIsMinOfRequestedAndBalance ==
  /\ sell.pc \in {"submit", "polling", "backoff"} => sell.reads = sell.attempt
  /\ \A n \in 1..Len(sell.orders) :
       LET o == sell.orders[n]
       IN /\ o.readNo = o.attempt
          /\ o.balance # Null
          /\ o.size = Min(sell.shares, Val(o.balance))
          /\ o.size <= Val(o.balance)

\* C5 witness: the balance read on a later attempt is below the request and
\* that attempt's order is clamped to it (12 requested, 10 held -> 10)
C5_Witness ==
  /\ Len(sell.orders) >= 2
  /\ sell.shares = 1200
  /\ sell.orders[1].size = 1200
  /\ sell.orders[2].size = 1000
  /\ sell.orders[2].balance = Some(1000)

\* C6: when a marketSell attempt reads a balance below the token's minimum
\* order size, the call fails without retrying: no further balance read and
\* no order submission after the failed validation.
C6_NoRetryBelowMinimum ==
  Market =>
    \A i \in 1..Len(sell.hist) :
      sell.hist[i] = "validation_min" =>
        /\ sell.pc = "done"
        /\ sell.result = Null
        /\ sell.reads = i
        /\ OrdersAfter(i) = {}

\* C7: marketSell makes a further attempt only after a balance/allowance
\* error or a no-fill timeout; a balance/allowance retry is preceded by a
\* backoff of min(500 * 2^(attempt-1), 2000) ms; any other rejection or
\* thrown error ends the call with no further order.
C7_RetryOnlyTransientOrNoFill ==
  Market =>
    \A i \in 1..Len(sell.hist) :
      /\ AttemptMade(i + 1) =>
           sell.hist[i] \in {"rejected_transient", "threw_transient", "nofill"}
      /\ (AttemptMade(i + 1) /\ sell.hist[i] \in {"rejected_transient", "threw_transient"}) =>
           [attempt |-> i,
            ms |-> IF 500 * 2^(i - 1) <= 2000 THEN 500 * 2^(i - 1) ELSE 2000]
             \in {sell.backoffs[n] : n \in 1..Len(sell.backoffs)}
      /\ sell.hist[i] \in {"rejected_other", "threw_other"} =>
           /\ sell.pc = "done"
           /\ sell.result = Null
           /\ OrdersAfter(i) = {}

\* C8: every marketSell call terminates, submits at most maxRetries orders,
\* and returns null when all its attempts are used up without a fill.
C8_TerminatesWithinMaxRetries ==
  /\ [](Market =>
          /\ Len(sell.orders) <= sell.maxRetries
          /\ sell.attempt <= sell.maxRetries + 1
          /\ (/\ sell.pc = "done"
              /\ Len(sell.hist) = sell.maxRetries
              /\ sell.hist[sell.maxRetries] # "filled")
               => (sell.result = Null /\ ~sell.threw))
  /\ (Market /\ sell.pc # "done") ~> (Market /\ sell.pc = "done")

\* C8 witness: a call whose three attempts each submitted an order and
\* failed has returned null
C8_Witness ==
  /\ Market
  /\ sell.pc = "done"
  /\ sell.maxRetries = DefaultMaxRetries
  /\ Len(sell.orders) = DefaultMaxRetries
  /\ sell.result = Null

\* C9: within one marketSell call the first order submitted is fill-or-kill,
\* every order of attempt 2 or later is fill-and-kill, and the mode never
\* goes back to fill-or-kill.
C9_FirstOrderFokThenFak ==
  Market =>
    /\ Len(sell.orders) >= 1 => sell.orders[1].orderType = "FOK"
    /\ \A n \in 1..Len(sell.orders) :
         sell.orders[n].attempt >= 2 => sell.orders[n].orderType = "FAK"
    /\ \A n, m \in 1..Len(sell.orders) :
         (n < m /\ sell.orders[n].orderType = "FAK") => sell.orders[m].orderType = "FAK"

\* C10: after the exchange accepted a marketSell order its fill status is
\* polled for a bounded time; an attempt without a positive fill has failed:
\* the next attempt is made when one remains, otherwise the call returns
\* null; a result is returned only on a positive fill.
C10_NoFillFailsTheAttempt ==
  Market =>
    /\ sell.pc = "polling" =>
         sell.elapsed - MaxLatency - FillPollIntervalMs < FAST_FILL_TIMEOUT_MS
    /\ sell.result # Null =>
         /\ Val(sell.result).soldShares > 0
         /\ sell.hist[Len(sell.hist)] = "filled"
    /\ \A i \in 1..Len(sell.hist) :
         sell.hist[i] = "nofill" =>
           IF i < sell.maxRetries
             THEN AttemptMade(i + 1)
             ELSE sell.pc = "done" /\ sell.result = Null

\* C10 witness: the first attempt's order saw no fill within the timeout,
\* and a later attempt's fill is what the call returned
C10_Witness ==
  /\ Market
  /\ Len(sell.hist) >= 2
  /\ sell.hist[1] = "nofill"
  /\ sell.result # Null

Limit == sell.kind = "limit"

C12_BuySubmitsAtMostOneOrder ==
  /\ Len(buy.orders) <= 1
  /\ (buy.pc # "idle" /\ (buy.price <= 0 \/ buy.price >= ONE)) =>
       (buy.orders = << >> /\ buy.pc = "done" /\ buy.result = Null)
  /\ (buy.pc \in {"submit", "done"} /\ buy.outcome # "invalid_price"
        /\ (buy.shares <= 0 \/ buy.shares < buy.minOrderSize)) =>
       (buy.orders = << >> /\ buy.pc = "done" /\ buy.result = Null)
  /\ buy.outcome \in {"rejected", "threw"} =>
       (buy.pc = "done" /\ buy.result = Null /\ Len(buy.orders) = 1)
  /\ buy.result # Null => (buy.outcome = "accepted" /\ Len(buy.orders) = 1)

\* C12 witness: the exchange rejected the one order of a buy, which returned
\* null
C12_Witness ==
  /\ buy.pc = "done"
  /\ buy.outcome = "rejected"
  /\ Len(buy.orders) = 1
  /\ buy.result = Null

Abs(a) == IF a >= 0 THEN a ELSE 0 - a

\* C14: for every input price and tick size, the price clampPriceToTick
\* gives is a whole multiple of the tick inside [tick, 1 - tick], and no
\* other multiple of the tick inside those bounds is closer to the input.
C14_ClampedPriceIsNearestTick ==
  clamp.done =>
    /\ clamp.out % clamp.tickSize = 0
    /\ clamp.tickSize <= clamp.out /\ clamp.out <= ONE - clamp.tickSize
    /\ \A k \in 1..((ONE \div clamp.tickSize) - 1) :
         Abs(clamp.out - clamp.price) <= Abs(k * clamp.tickSize - clamp.price)

(* claims about the calls that go to the exchange *)

\* the exchange calls of the kinds C15 lists: balance and position-balance
\* query, order book / price query, order placement, order status query,
\* cancellation
ExchangeCalls ==
  {"getBalanceAllowance", "getOrderBook", "fetchBook", "createAndPostOrder",
   "createAndPostMarketOrder", "getOpenOrders", "getOrder", "cancelOrder",
   "cancelMarketOrders", "cancelAll"}

MeansNotFound(r) ==
  r \in {Some(<<"order", "not", "found">>), Some(<<"order", "already", "cancelled">>)}

\* C17: each of cancelOrder, cancelOrdersForToken and cancelAllOrders
\* returns true when the exchange's answer to its (last) cancel call means
\* "not found / already cancelled".
C17_NotFoundCancelIsSuccess ==
  (/\ xop.op \in CancelOps
   /\ xop.pc = "returned"
   /\ MeansNotFound(xop.responses[Len(xop.responses)]))
    => xop.result = Some(TRUE)

(* claims about the market rules cache *)

\* C16 as stated: once a lookup of a token has completed (its fetch having
\* succeeded or failed), a later lookup of that token made less than the TTL
\* after that completion is served from the cache, and one made at or after
\* it fetches again.
C16_CachedWithinTtlOfCompletion ==
  (lookup.pc # "idle" /\ lookup.prevCompleted # Null) =>
    IF lookup.now - Val(lookup.prevCompleted) < MARKET_RULES_TTL_MS
      THEN lookup.hit /\ lookup.fetches = 0
      ELSE ~lookup.hit

\* C16 amended: the TTL counts from the moment the lookup that went to the
\* exchange began (the time stamped on the entry it cached, whether the
\* fetched rules or the fallback): a later sequential lookup of the token
\* made less than 30 s after that moment returns the cached entry without
\* calling the exchange, and one made 30 s or more after it fetches again.
C16_CachedWithinTtlOfLookupStart ==
  (lookup.pc # "idle" /\ lookup.prevBegan # Null) =>
    IF lookup.now - Val(lookup.prevBegan) < MARKET_RULES_TTL_MS
      THEN /\ lookup.hit
           /\ lookup.pc = "done"
           /\ lookup.fetches = 0
           /\ lookup.result = Some(tokenRulesCache[lookup.tokenId])
           /\ Val(lookup.result).fetchedAt = Val(lookup.prevBegan)
      ELSE /\ ~lookup.hit
           /\ lookup.pc = "done" => lookup.fetches = 1

\* C16 witness: a lookup made 20 s after one whose fetch failed is served
\* the cached fallback without a call to the exchange
C16_Witness ==
  /\ lookup.pc = "done"
  /\ lookup.hit
  /\ lookup.fetches = 0
  /\ lookup.fellBack[lookup.tokenId]
  /\ lookup.now - Val(lookup.prevBegan) = 20000
  /\ Val(lookup.result).minOrderSize = MIN_ORDER_SIZE
  /\ Val(lookup.result).tickSize = FallbackTickSize

(* claims about the price stream *)

\* the state of the stream as its users see it: CONNECTED is isConnected(),
\* CONNECTING is a socket whose handshake is under way
StatusOf(socks, wsRef, isConn) ==
  IF isConn /\ wsRef # 0 /\ socks[wsRef] = "OPEN" THEN "CONNECTED"
  ELSE IF \E i \in SocketIds : socks[i] = "CONNECTING" THEN "CONNECTING"
  ELSE "DISCONNECTED"

Status == StatusOf(sockets, ws, connected)

\* the stream has been connected at least once
Started == \E i \in SocketIds : sockets[i] # "NONE"

CloseHandlers == {"onclose", "onclose_failed"}

\* every onclose arms the reconnect timeout with the 3 s delay
ReconnectArmed ==
  handled.h \in CloseHandlers =>
    handled.delay = ReconnectDelayMs /\ reconnectTimer > 0

\* a stream that has lost its connection and was not closed by its owner
\* is connecting again later
ReconnectsAfterDisconnect ==
  (Started /\ Status = "DISCONNECTED" /\ ~closedByOwner)
    ~> (Status = "CONNECTING" \/ closedByOwner)

StrictEdges ==
  { <<"DISCONNECTED", "CONNECTING">>, <<"CONNECTING", "CONNECTED">>,
    <<"CONNECTED", "DISCONNECTED">> }

StatusStep(edges) ==
  LET next == StatusOf(sockets', ws', connected')
  IN next # Status => <<Status, next>> \in edges

\* C18 as stated: the stream moves only along DISCONNECTED -> CONNECTING ->
\* CONNECTED -> DISCONNECTED, every close or failure arms a reconnect after
\* 3 s, and the stream does not stay DISCONNECTED forever.
C18_OnlyTheThreeEdges ==
  /\ [][StatusStep(StrictEdges)]_vars
  /\ []ReconnectArmed
  /\ ReconnectsAfterDisconnect

\* C18 amended: besides the three edges of the claim the stream also moves
\* CONNECTING -> DISCONNECTED (a connection attempt that fails or is
\* abandoned), and no other way; every close or failure arms a reconnect
\* after 3 s, and a stream not closed by its owner does not stay
\* DISCONNECTED forever.
C18_EdgesWithFailedAttempt ==
  /\ [][StatusStep(StrictEdges \cup {<<"CONNECTING", "DISCONNECTED">>})]_vars
  /\ []ReconnectArmed
  /\ ReconnectsAfterDisconnect

\* C18 witness: the second connection attempt in a row has failed and
\* the reconnect timeout is armed once more
C18_Witness ==
  /\ handled.h = "onclose_failed"
  /\ handled.via = "reconnect"
  /\ handled.delay = ReconnectDelayMs
  /\ reconnectTimer > 0
  /\ Status = "DISCONNECTED"
  /\ ~closedByOwner

\* C19: no step of the stream (a disconnect least of all) takes an id out
\* of the tracked set, and every onopen that finds the set non-empty has
\* itself sent one subscription message listing every tracked id, the
\* stream then being connected.
C19_ResubscribesAllOnConnect ==
  /\ [][Range(subscriptions) \subseteq Range(subscriptions')]_vars
  /\ [](handled.h = "onopen" =>
          /\ Status = "CONNECTED"
          /\ handled.before = subscriptions
          /\ handled.sent = IF handled.before = << >> THEN << >>
                                                      ELSE << handled.before >>)

\* C19 witness: the socket made by the reconnect timeout opens and both
\* tracked ids are sent again
C19_Witness ==
  /\ handled.h = "onopen"
  /\ handled.via = "reconnect"
  /\ ~closedByOwner
  /\ Len(handled.before) = 2
  /\ handled.sent = << handled.before >>

\* the ids of a subscribe call that were not tracked before it
NewIdsOfCall == Range(handled.ids) \ Range(handled.before)

\* C20: after subscribe(ids) the tracked set is what it was plus the ids
\* not tracked before, in their old order and without repeats; a connected
\* stream has sent one message listing exactly the new ids when there are
\* any, and nothing has been sent when there are none or the stream is not
\* connected.
C20_SubscribeSendsOnlyNewIds ==
  handled.h = "subscribe" =>
    /\ Range(subscriptions) = Range(handled.before) \cup NewIdsOfCall
    /\ SubSeq(subscriptions, 1, Len(handled.before)) = handled.before
    /\ Len(subscriptions) = Cardinality(Range(subscriptions))
    /\ IF handled.wasConnected /\ NewIdsOfCall # {}
         THEN Len(handled.sent) = 1 /\ Range(handled.sent[1]) = NewIdsOfCall
         ELSE handled.sent = << >>

\* C20 witness: a connected stream tracking one id is asked for that id
\* and another, and sends the other alone
C20_Witness ==
  /\ handled.h = "subscribe"
  /\ handled.wasConnected
  /\ Len(handled.before) = 1
  /\ Len(handled.ids) = 2
  /\ handled.before[1] \in Range(handled.ids)
  /\ Len(handled.sent) = 1
  /\ Len(handled.sent[1]) = 1
  /\ handled.sent[1][1] # handled.before[1]

(* claims about the stream's messages *)

\* the (instrument, best bid, best ask) triples a message states outright,
\* itself or in an item of its price_changes list
StatedPairs(d) ==
  (IF d.asset_id # Null /\ d.best_bid # Null /\ d.best_ask # Null
     THEN { <<Val(d.asset_id), Val(d.best_bid), Val(d.best_ask)>> } ELSE {})
  \cup (IF d.price_changes # Null
          THEN { <<Val(i.asset_id), Val(i.best_bid), Val(i.best_ask)>> :
                   i \in { j \in Range(Val(d.price_changes)) :
                             j.asset_id # Null /\ j.best_bid # Null /\ j.best_ask # Null } }
          ELSE {})

\* the same, the elements of an array message included
CarriedPairs(d) ==
  StatedPairs(d) \cup
    (IF d.items # Null THEN UNION { StatedPairs(m) : m \in Range(Val(d.items)) } ELSE {})

SnapshotHasPair(q) ==
  /\ q[1] \in DOMAIN prices
  /\ prices[q[1]].bestBid = q[2]
  /\ prices[q[1]].bestAsk = q[3]

\* C21 as stated: after a message that carries an explicit best-bid /
\* best-ask pair for an instrument, the stored snapshot of the instrument
\* has exactly that bid and ask.
C21_PairOverwritesSnapshot ==
  \A q \in CarriedPairs(delivery.data) : SnapshotHasPair(q)

\* C21 amended: after a price-change message that carries an explicit
\* best-bid / best-ask pair other than that of an empty book (bid 0, ask 1)
\* the stored snapshot of the instrument has exactly that bid and ask,
\* whatever was stored before; the pair of an empty book leaves the stored
\* snapshot as it was.
C21_RealPairOverwritesSnapshot ==
  \A q \in CarriedPairs(delivery.data) :
    IF q[2] > 0 \/ q[3] < QuoteOne
      THEN SnapshotHasPair(q)
      ELSE prices = delivery.before

\* C21 witness: a snapshot made of a last-trade price (bid = ask = 44) is
\* overwritten by the pair (40, 60) of a price-change message
C21_Witness ==
  \E q \in CarriedPairs(delivery.data) :
    /\ q[2] = 40 /\ q[3] = 60
    /\ q[1] \in DOMAIN delivery.before
    /\ delivery.before[q[1]] = Snapshot(44, 44, 44)
    /\ prices[q[1]] = Snapshot(50, 40, 60)

\* the instruments for which a message carries a last-trade price and
\* nothing else (no pair, no book side)
TradeOnly(d) ==
  (IF d.asset_id # Null /\ d.price # Null /\ d.best_bid = Null /\ d.best_ask = Null
      /\ d.bids = Null /\ d.asks = Null /\ d.price_changes = Null
     THEN { Val(d.asset_id) } ELSE {})
  \cup (IF d.price_changes # Null
          THEN { Val(i.asset_id) :
                   i \in { j \in Range(Val(d.price_changes)) :
                             j.asset_id # Null /\ j.price # Null
                             /\ j.best_bid = Null /\ j.best_ask = Null } }
          ELSE {})

CarriesTradeOnly(d) ==
  TradeOnly(d) \cup
    (IF d.items # Null THEN UNION { TradeOnly(m) : m \in Range(Val(d.items)) } ELSE {})

\* C22: a message that carries only a last-trade price for an instrument
\* whose stored snapshot has a real spread (best bid # best ask) leaves that
\* snapshot as it was and fires no update.
C22_TradeKeepsSpreadSnapshot ==
  \A t \in CarriesTradeOnly(delivery.data) :
    (t \in DOMAIN delivery.before
       /\ delivery.before[t].bestBid # delivery.before[t].bestAsk) =>
      /\ prices[t] = delivery.before[t]
      /\ delivery.updates = << >>

\* C23: every update a message fires reaches every callback registered at
\* the time, once each and in registration order, whether or not one of
\* them throws; the update stays in the snapshot map; the handling of a
\* message leaves the connection as it was.
C23_CallbackFailuresAreIsolated ==
  /\ [](\A u \in 1..Len(delivery.updates) :
          /\ delivery.invoked[u] = [i \in 1..Len(delivery.registered) |-> i]
          /\ (\A v \in (u + 1)..Len(delivery.updates) :
                 delivery.updates[v].tokenId # delivery.updates[u].tokenId)
               => prices[delivery.updates[u].tokenId] = delivery.updates[u].update)
  /\ [][delivery' # delivery =>
          UNCHANGED <<sockets, ws, connected, reconnectTimer, pingTimer>>]_vars

\* C23 witness: the first of two callbacks throws, the second is invoked
\* all the same, the snapshot is stored and the stream is connected
C23_Witness ==
  /\ delivery.registered = << "throws", "returns" >>
  /\ Len(delivery.updates) = 1
  /\ delivery.invoked[1] = << 1, 2 >>
  /\ prices[delivery.updates[1].tokenId] = delivery.updates[1].update
  /\ IsConnected

\* C24: once close() has been called no reconnect timeout and no keepalive
\* interval is armed, and no connection attempt is under way.
C24_CloseReleasesTheTimers ==
  closedByOwner =>
    /\ reconnectTimer = 0
    /\ ~pingTimer
    /\ \A i \in SocketIds : sockets[i] # "CONNECTING"

(* claims about start() and stop() *)

\* C25: while the bot is not running no interval timer is armed (so that
\* no timer-driven tick can begin).
C25_NoTimerWhileStopped ==
  ~running => timers = 0

\* C27: start() runs one tick and then arms one timer, start() on a
\* running bot does nothing, so at most one interval timer is armed at any
\* time.
C27_AtMostOneTimer ==
  timers <= 1

\* C26: a stop() on a bot that is not running (the second of two in a row
\* among them) changes nothing of the bot, clears no timer and logs
\* nothing; the shutdown handler runs in a live process only and ends it,
\* so that it runs at most once.
C26_SecondStopIsNoOp ==
  /\ [][(control'.call = "stop" /\ ~running) =>
          /\ UNCHANGED <<phase, tradingEnabled, initError, running, intervalSet, timers,
                         awaited, stateBalance, positions, nextOrd, ticks, trades>>
          /\ ~control'.ran
          /\ ~control'.cleared
          /\ control'.logged = << >>]_vars
  /\ [](control.call = "stop" /\ control.again => ~control.ran)
  /\ [][control'.call = "shutdown" => phase # "exited" /\ phase' = "exited"]_vars
  /\ [][phase = "exited" => control'.call # "shutdown"]_vars

\* C26 witness: stop() on a running bot, and stop() again: the second has
\* done nothing
C26_Witness ==
  /\ control.call = "stop"
  /\ control.again
  /\ ~control.ran
  /\ ~running
  /\ timers = 0
  /\ phase = "ready"

(* claims about the stop-loss pass *)

\* C28: a stop-loss check goes on to marketSell exactly when the price it
\* evaluated is at or below the stop-loss level.
C28_SellIffAtOrBelowStopLoss ==
  control.call = "checkStopLosses" =>
    (ticks[control.tick].pc = "marketSell" <=> control.price <= StopLoss)

\* C28 witness: a price equal to the stop-loss level has triggered the sell
C28_Witness ==
  /\ control.call = "checkStopLosses"
  /\ control.price = StopLoss
  /\ ticks[control.tick].pc = "marketSell"

\* the step in which the marketSell of tick k's stop-loss resolves
SellResolves(k) ==
  /\ ticks[k].pc = "marketSell"
  /\ ticks'[k] # ticks[k]
  /\ phase' = phase

\* C29: the step in which a stop-loss sell resolves either closes the
\* position's ledger record as STOPPED and removes the position from the
\* map, both at once, or leaves the ledger and the map as they were.
C29_CloseAndRemoveTogether ==
  [][\A k \in TickIds :
       SellResolves(k) =>
         LET id == Val(ticks[k].pos).tradeId
             t == ticks[k].cur
         IN \/ trades' = trades /\ positions' = positions
            \/ /\ trades'[id].status = "STOPPED"
               /\ trades'[id].exit_price # Null
               /\ \A j \in 1..Len(trades) : j # id => trades'[j] = trades[j]
               /\ Len(trades') = Len(trades)
               /\ t \notin DOMAIN positions'
               /\ \A u \in DOMAIN positions : u # t =>
                     u \in DOMAIN positions' /\ positions'[u] = positions[u]]_vars

\* C29 witness: an OPEN record has been closed as STOPPED, its position is
\* gone from the map and the other position is still there
C29_Witness ==
  \E k \in TickIds :
    /\ control.call = "marketSell"
    /\ control.ran
    /\ control.tick = k
    /\ ticks[k].pc = "getPrice"
    /\ \E i \in 1..Len(trades) :
         /\ trades[i].status = "STOPPED"
         /\ trades[i].token_id \notin DOMAIN positions
    /\ Cardinality(DOMAIN positions) = 1

(* claims about the stop-loss price source *)

\* C30: a stop-loss check takes the stream's snapshot only while the stream
\* is connected; once the stream has disconnected it asks the exchange.
C30_StreamPriceOnlyWhileConnected ==
  sourced.source = "stream" => sourced.connectedThen

(* claims about a session *)

SellFails(k) ==
  /\ SellResolves(k)
  /\ trades' = trades
  /\ positions' = positions

\* C32: no step of a tick clears running or disarms a timer, a running bot
\* has its timer armed or its start() about to arm it, and after a failed
\* sell the same tick goes on to the next position left in the map.
C32_TickFailuresAreContained ==
  /\ [](running => timers > 0 \/ awaited # {})
  /\ [][phase' = phase /\ control'.call \notin {"start", "stop", "shutdown"} =>
          running' = running /\ timers' >= timers]_vars
  /\ [][\A k \in TickIds :
          SellFails(k) /\ Unvisited(positions, ticks[k].last) # {} =>
            /\ ticks'[k].pc = "getPrice"
            /\ ticks'[k].cur = NextKey(positions, ticks[k].last)]_vars

\* C32 witness: with a timer armed, a tick whose sell of the first position
\* has failed is checking the second position, which is still in the map
C32_Witness ==
  \E k \in TickIds :
    /\ running
    /\ timers > 0
    /\ control.call = "marketSell"
    /\ ~control.ran
    /\ control.tick = k
    /\ ticks[k].pc = "getPrice"
    /\ Cardinality(DOMAIN positions) = 2
    /\ positions[ticks[k].cur].ord = 2
    /\ \A i \in 1..Len(trades) : trades[i].status = "OPEN"
    /\ ticks[k].last = 2

(* claims about the positions and the ledger *)

\* the instruments that have an OPEN record
OpenTokens == {trades[i].token_id : i \in {j \in 1..Len(trades) : trades[j].status = "OPEN"}}

\* the map entry of token t carries the values of an OPEN record of t
CarriesOpenRecord(t) ==
  \E i \in 1..Len(trades) :
    /\ trades[i].status = "OPEN"
    /\ trades[i].token_id = t
    /\ positions[t].tradeId = i
    /\ positions[t].shares = trades[i].shares
    /\ positions[t].entryPrice = trades[i].entry_price

\* C33: when init has returned with trading enabled, the position map has
\* an entry for exactly the instruments that have an OPEN record, each
\* carrying the id, shares and entry price of an OPEN record of its
\* instrument.
C33_InitRebuildsPositions ==
  control.call = "init" /\ control.ran =>
    /\ DOMAIN positions = OpenTokens
    /\ \A t \in DOMAIN positions : CarriesOpenRecord(t)

\* C33 witness: init after a restart, over a ledger with an OPEN record of
\* one instrument and a closed record of the other
C33_Witness ==
  /\ control.call = "init"
  /\ control.ran
  /\ Len(trades) = 2
  /\ \E i, j \in 1..Len(trades) :
       /\ trades[i].status = "OPEN"
       /\ trades[j].status = "STOPPED"
       /\ trades[i].token_id # trades[j].token_id
       /\ DOMAIN positions = {trades[i].token_id}

\* C34: a trade inserted into the empty ledger is the one record the list
\* of open records returns, with the inserted values, status OPEN and null
\* exit price, pnl and close time; a record closeTrade has been called on
\* is not in the list of open records.
C34_InsertListCloseRoundTrip ==
  /\ control.call = "insertTrade" /\ Len(trades) = 1 =>
       /\ GetOpenTrades(trades) = <<1>>
       /\ trades[1] = [token_id |-> control.tokenId, entry_price |-> control.price,
                       shares |-> control.shares, status |-> "OPEN",
                       exit_price |-> Null, pnl |-> Null, closed_at |-> Null]
  /\ control.call = "closeTrade" /\ control.id \in 1..Len(trades) =>
       control.id \notin Range(GetOpenTrades(trades))

\* C34 witness: the one record of the ledger, listed as open after its
\* insertion, has been closed and the list of open records is empty
C34_Witness ==
  /\ control.call = "closeTrade"
  /\ control.id = 1
  /\ Len(trades) = 1
  /\ trades[1].status = "STOPPED"
  /\ GetOpenTrades(trades) = << >>

(* claims about the configuration and the entry conditions *)

Validators == {"validateModeConfig", "validateConfig", "validateBacktestConfig"}

\* the fields other than the three thresholds are valid for every validator
OtherFieldsValid(c) ==
  /\ c.maxSpread >= 0 /\ c.maxSpread <= 50
  /\ c.profitTarget >= 1 /\ c.profitTarget <= 99
  /\ c.maxEntryPrice < c.profitTarget
  /\ c.timeWindowMs >= 30000 /\ c.timeWindowMs <= 900000

\* stopLoss < entryThreshold <= maxEntryPrice
Ordered(c) == c.stopLoss < c.entryThreshold /\ c.entryThreshold <= c.maxEntryPrice

\* C35: with the other fields valid, every validator accepts a
\* configuration exactly when stopLoss < entryThreshold <= maxEntryPrice.
C35_ValidatorsAcceptExactlyTheOrdering ==
  evaluation.fn \in Validators /\ OtherFieldsValid(evaluation.input) =>
    (evaluation.errors = << >> <=> Ordered(evaluation.input))

\* the first violated entry condition on the decimal prices, in the order
\* spread, threshold, max entry price, profit target
FirstViolated(p) ==
  IF p.askPrice - p.bidPrice > p.maxSpread THEN "spread"
  ELSE IF p.askPrice < p.entryThreshold THEN "threshold"
  ELSE IF p.askPrice > p.maxEntryPrice THEN "max entry"
  ELSE IF p.askPrice >= p.profitTarget THEN "profit target"
  ELSE "none"

\* C36: an entry signal is accepted exactly when ask - bid <= maxSpread
\* (equality allowed), entryThreshold <= ask <= maxEntryPrice and
\* ask < profitTarget; a rejection reports the first violated condition in
\* the order spread, threshold, max entry price, profit target.
C36_EntryAcceptedIffAllConditions ==
  evaluation.fn = "shouldEnter" =>
    /\ evaluation.result.valid <=> FirstViolated(evaluation.input) = "none"
    /\ evaluation.result.reason = FirstViolated(evaluation.input)

(* claims about the stream's connect() *)

\* C37: every connect() call eventually settles (it resolves on open, it
\* rejects on error, close or the 10 s timeout), so the Bot.init awaiting it
\* never waits forever.
C37_ConnectSettles ==
  (connectPromise = "pending") ~> (connectPromise \in {"resolved", "rejected"})

(* claims about the outcome of marketSell *)

\* the attempts of the call whose waitForFill returned filled shares
FillObserved == {i \in 1..Len(sell.hist) : sell.hist[i] \in {"partial_fok", "filled"}}

\* C38: whenever marketSell returns null, no attempt of that call observed
\* a positive fill: shares sold on an earlier attempt are never dropped from
\* the outcome reported to the caller.
C38_NullMeansNoFillObserved ==
  Market /\ sell.pc = "done" /\ ~sell.threw /\ sell.result = Null =>
    FillObserved = {}

\* C40: after every marketSell call completes, getLastMarketSellError() is
\* non-null exactly when the call failed (returned null or threw); a call
\* that returns a result leaves it null even when an earlier attempt of the
\* call failed.
C40_LastErrorIffFailed ==
  Market /\ sell.pc = "done" =>
    (sell.lastError # Null <=> (sell.result = Null \/ sell.threw))

(* claims about the position map and the ledger together *)

\* C39: for a trading-enabled bot, at every suspension point and between
\* ticks, the instruments of the position map are the instruments with an
\* OPEN ledger record, and each entry's trade id is the id of an OPEN record
\* of its instrument, under any interleaving of overlapping ticks.
C39_MapMirrorsOpenRecords ==
  phase = "ready" /\ tradingEnabled =>
    /\ DOMAIN positions = OpenTokens
    /\ \A t \in DOMAIN positions :
         /\ positions[t].tradeId \in 1..Len(trades)
         /\ trades[positions[t].tradeId].status = "OPEN"
         /\ trades[positions[t].tradeId].token_id = t

====
